---- MODULE Spec2Model ----
\* Verification model of the wosim storage engine (crates/database), its B+ tree
\* and the server's region streaming (crates/server).
EXTENDS Integers, Sequences, FiniteSets, TLC

\* ---------------------------------------------------------------- bounds
\* Highest page number the model lets the file grow to.
MaxPage == 13
\* Vector elements are drawn from 1..MaxVal.
MaxVal == 2
\* Longest vector the model builds (one element per page, see ELEMENTS_PER_PAGE).
MaxLen == 2
\* Snapshots taken in one run.
MaxVersion == 4
\* Vector operations between two snapshots.
MaxOps == 3
\* Tree keys are drawn from 1..MaxKey.
MaxKey == 4
\* Tree operations of one run.
MaxTreeOps == 5
\* Snapshots taken between the tree operations.
MaxTreeVersion == 2
\* Configuration::size, static_distance and full_distance of the world.
WorldSize == 3
StaticDistance == 1
FullDistance == 0
\* Users of the server.
MaxObservers == 1
\* Entries in the change queue.
MaxQueue == 14
\* Requests and disconnects the server handles in one run.
MaxRequests == 4
\* RawConnection::size_limit, in bytes.
SizeLimit == 1
\* Messages sent over the connection in one run.
MaxMessages == 3
\* Snapshots taken in one run with power loss.
MaxCrashVersion == 2
\* Highest page number in use in a run with power loss.
MaxCrashPage == 9
\* Interpolation buffers: ticks 0..MaxTick, samples 0 and MaxSample, number of
\* insert calls.
MaxTick == 6
MaxSample == 12
MaxInserts == 3
\* Number of snapshot calls on one synchronizer.
MaxCalls == 12
\* Number of frames the client renders.
MaxFrames == 6

\* Players whose character slots are created and deleted.
MaxPlayers == 3

\* Operations on the guards of the vector between two snapshots.
MaxGuardOps == 4
\* The side of the large world, in regions: two neighbourhoods of static
\* distance 1 that share no region fit into it.
AtlasSize == 6
\* Entries in the change queue of the large world.
MaxAtlasQueue == 32
\* Entries one tick of the large world works off before its timeout.
MaxAtlasTick == 10

\* ---------------------------------------------------------------- constants
PAGE_SIZE == 8192
NULL_PAGE_NR == 0
\* size_of::<PageNr>()
PAGE_NR_SIZE == 4
FAN_OUT == PAGE_SIZE \div PAGE_NR_SIZE
MAX_DEPTH == 2
ENTRIES_PER_DEPTH == <<FAN_OUT * FAN_OUT, FAN_OUT, 1>>
\* Option::None of an Option<PageNr>
None == -1

PageNrs == 0..MaxPage
Values == 1..MaxVal

\* ---------------------------------------------------------------- raw pages
\* A page is its non-zero words: a function from word index to value; every
\* word outside the domain reads as zero (Page::zeroed is the empty function).
ZeroPage == [i \in {} |-> 0]

Slot(page, i) == IF i \in DOMAIN page THEN page[i] ELSE 0

Put(page, i, v) ==
    IF v = 0
    THEN [j \in (DOMAIN page) \ {i} |-> page[j]]
    ELSE [j \in (DOMAIN page) \cup {i} |-> IF j = i THEN v ELSE page[j]]

\* ---------------------------------------------------------------- machine
\* The operators below transform a record d, the in-memory state of one open
\* database while one Lock call runs:
\*   pages     memory image of the mapped file, by page number
\*   writable  the writable bitset
\*   state     AllocatorState: previous_free, current_free, last_page
\*   append, prepend   the Allocator handle's scratch lists
\*   ret       the value the last call returned
\*   panic     a Rust panic was raised (assert, unwrap, index out of bounds)
\*   oob       the call left the page range of the model
\*   beyond    the call entered code that is outside the model
\*   clobber   the call wrote a page over page 0, the header page
\*   committed page numbers the last snapshot refers to (history)
\*   released  pages of the last snapshot given back since that snapshot (history)
\*   reused    the call handed out a page that is in released (history)
Panic(d) == [d EXCEPT !.panic = TRUE]

\* The call in progress is not followed further: it panicked, left the page
\* range, or destroyed the header page.
Stop(d) == d.panic \/ d.oob \/ d.clobber \/ d.beyond

Ret(d, v) == [d EXCEPT !.ret = v]

InRange(nr) == nr \in PageNrs

Touch(d, nr) == IF InRange(nr) THEN d ELSE [d EXCEPT !.oob = TRUE]

PageOf(d, nr) == IF InRange(nr) THEN d.pages[nr] ELSE ZeroPage

WritePage(d, nr, page) ==
    IF nr = NULL_PAGE_NR THEN [d EXCEPT !.clobber = TRUE]
    ELSE IF InRange(nr) THEN [d EXCEPT !.pages[nr] = page]
    ELSE [d EXCEPT !.oob = TRUE]

can_write(d, nr) == nr \in d.writable

enable_write(d, nr) == [Touch(d, nr) EXCEPT !.writable = @ \cup {nr}]

copy_page_mut(d, from, to) == WritePage(d, to, PageOf(d, from))

\* ---------------------------------------------------------------- free list
RECURSIVE get_in_page(_, _, _, _)
get_in_page(d, page_nr, index, depth) ==
    IF page_nr = NULL_PAGE_NR \/ ~InRange(page_nr)
    THEN None
    ELSE LET child_index == index \div ENTRIES_PER_DEPTH[depth + 1]
             child == Slot(d.pages[page_nr], child_index)
         IN  IF depth < MAX_DEPTH
             THEN get_in_page(d, child, index % ENTRIES_PER_DEPTH[depth + 1], depth + 1)
             ELSE child

\* FreeList::get; the assert_ne!(page_nr, NULL_PAGE_NR) of get_in_page panics.
FreeListGet(d, list, index) ==
    CHOOSE it \in {IF nr = None THEN Panic(d) ELSE Ret(d, nr)
                   : nr \in {get_in_page(d, d.state[list].root, index, 0)}} : TRUE

shift_front(d, list) ==
    LET fl == d.state[list]
    IN  IF fl.front < fl.back
        THEN [FreeListGet(d, list, fl.front) EXCEPT !.state[list].front = @ + 1]
        ELSE [d EXCEPT !.state[list].front = @ + 1,
                       !.state[list].back = @ + 1,
                       !.ret = None]

reset_front(fl) == [fl EXCEPT !.front = 0]

\* A pop that would take the entry at the front of the window.
pop_front(d, list) ==
    LET fl == d.state[list]
    IN  IF fl.front < fl.back
        THEN FreeListGet([d EXCEPT !.state[list].front = @ + 1], list, fl.front)
        ELSE Ret(d, None)

pop_back(d, list) ==
    LET fl == d.state[list]
    IN  IF fl.front < fl.back
        THEN FreeListGet([d EXCEPT !.state[list].back = @ - 1], list, fl.back - 1)
        ELSE Ret(d, None)

\* ---------------------------------------------------------------- allocator
\* The page number allocate hands out: from append, else from the back of the
\* current free list, else from the back of the previous one, else a new page.
AllocateNr(d) ==
    IF Len(d.append) > 0
    THEN [d EXCEPT !.append = SubSeq(@, 1, Len(@) - 1),
                   !.ret = d.append[Len(d.append)]]
    ELSE CHOOSE it \in {
             IF Stop(c) \/ c.ret # None THEN c
             ELSE CHOOSE it \in {
                      IF Stop(p) \/ p.ret # None THEN p
                      ELSE [p EXCEPT !.state.last_page = @ + 1,
                                     !.ret = p.state.last_page + 1]
                      : p \in {pop_back(c, "previous_free")}} : TRUE
             : c \in {pop_back(d, "current_free")}} : TRUE

\* The page handed out is made writable.
HandOut(got) ==
    IF Stop(got) THEN got
    ELSE [enable_write(got, got.ret) EXCEPT !.reused = @ \/ got.ret \in got.released]

allocate(d) == IF Stop(d) THEN d ELSE HandOut(AllocateNr(d))

\* A page that is not writable is queued on prepend.
Release(d, nr) ==
    [d EXCEPT !.prepend = Append(@, nr), !.released = @ \cup ({nr} \cap d.committed)]

deallocate(d, nr) ==
    IF Stop(d) THEN d ELSE
    IF can_write(d, nr)
    THEN [d EXCEPT !.append = Append(@, nr)]
    ELSE CHOOSE it \in {
             IF Stop(s) \/ s.ret = None THEN s
             ELSE [s EXCEPT !.append = Append(@, s.ret)]
             : s \in {shift_front(Release(d, nr), "current_free")}} : TRUE

reallocate(d, nr) ==
    IF Stop(d) THEN d ELSE
    CHOOSE it \in {
        IF Stop(s) THEN s
        ELSE IF s.ret # None THEN HandOut(s)
        ELSE allocate(s)
        : s \in {shift_front(Release(d, nr), "current_free")}} : TRUE

\* The page set_inner writes at this depth: a new zeroed page, the page itself
\* when it is writable, or a writable copy of it.
SetInnerPage(d, page_nr) ==
    IF page_nr = NULL_PAGE_NR
    THEN CHOOSE it \in {IF Stop(x) THEN x ELSE WritePage(x, x.ret, ZeroPage)
                        : x \in {allocate(d)}} : TRUE
    ELSE IF can_write(d, page_nr)
    THEN Ret(d, page_nr)
    ELSE CHOOSE it \in {IF Stop(x) THEN x ELSE copy_page_mut(x, page_nr, x.ret)
                        : x \in {reallocate(d, page_nr)}} : TRUE

RECURSIVE set_inner(_, _, _, _, _)
set_inner(d, page_nr, index, value, depth) ==
    IF Stop(d) THEN d ELSE
    CHOOSE it \in {
        LET nr == a.ret
            child_index == index \div ENTRIES_PER_DEPTH[depth + 1]
        IN  IF Stop(a) THEN a
            ELSE IF depth < MAX_DEPTH
            THEN CHOOSE it \in {
                     IF Stop(c) THEN c
                     ELSE Ret(WritePage(c, nr, Put(PageOf(c, nr), child_index, c.ret)), nr)
                     : c \in {set_inner(a, Slot(PageOf(a, nr), child_index),
                                        index % ENTRIES_PER_DEPTH[depth + 1], value, depth + 1)}} : TRUE
            ELSE Ret(WritePage(a, nr, Put(PageOf(a, nr), child_index, value)), nr)
        : a \in {SetInnerPage(d, page_nr)}} : TRUE

\* FreeList::set: always writes to the current free list.
FreeListSet(d, index, value) ==
    CHOOSE it \in {IF Stop(s) THEN s ELSE [s EXCEPT !.state.current_free.root = s.ret]
                   : s \in {set_inner(d, d.state.current_free.root, index, value, 0)}} : TRUE

RECURSIVE FreeListSetAll(_, _, _)
FreeListSetAll(d, index, nrs) ==
    IF nrs = <<>> \/ Stop(d) THEN d
    ELSE FreeListSetAll(FreeListSet(d, index, Head(nrs)), index + 1, Tail(nrs))

\* FreeList::prepend; front - nrs.len() is a u32 subtraction.
FreeListPrepend(d, nrs) ==
    IF d.state.current_free.front < Len(nrs) THEN Panic(d)
    ELSE FreeListSetAll(d, d.state.current_free.front - Len(nrs), nrs)

RECURSIVE FreeListAppend(_, _)
FreeListAppend(d, nrs) ==
    IF nrs = <<>> \/ Stop(d) THEN d
    ELSE CHOOSE it \in {
             IF Stop(s) THEN s
             ELSE FreeListAppend([s EXCEPT !.state.current_free.back = @ + 1], Tail(nrs))
             : s \in {FreeListSet(d, d.state.current_free.back, Head(nrs))}} : TRUE

\* One round of Allocator::resolve's loop body, after the prepend scratch list
\* was taken: the append scratch list is taken and appended.
ResolveAppend(p) == FreeListAppend([p EXCEPT !.append = <<>>], p.append)

RECURSIVE resolve(_)
resolve(d) ==
    IF Stop(d) \/ (d.prepend = <<>> /\ d.append = <<>>) THEN d
    ELSE resolve(ResolveAppend(FreeListPrepend([d EXCEPT !.prepend = <<>>], d.prepend)))

\* ---------------------------------------------------------------- lock
\* Every Lock call builds an Allocator and drops it: the drop runs resolve;
\* the call returns what the Allocator returned.
Dropped(a) == Ret(resolve(a), a.ret)

lock_allocate(d) == Dropped(allocate(d))

lock_deallocate(d, nr) == resolve(deallocate(d, nr))

lock_reallocate(d, nr) == Dropped(reallocate(d, nr))

allocate_zeroed(d) ==
    CHOOSE it \in {IF Stop(a) THEN a ELSE WritePage(a, a.ret, ZeroPage)
                   : a \in {lock_allocate(d)}} : TRUE

\* Lock::page_mut(&mut nr): ret is the page number nr holds afterwards.
lock_page_mut(d, nr) ==
    IF Stop(d) THEN d
    ELSE IF nr = NULL_PAGE_NR THEN allocate_zeroed(d)
    ELSE IF can_write(d, nr) THEN Ret(d, nr)
    ELSE CHOOSE it \in {IF Stop(a) THEN a ELSE copy_page_mut(a, nr, a.ret)
                        : a \in {lock_reallocate(d, nr)}} : TRUE

\* Lock::page(nr) asserts nr != NULL_PAGE_NR.
lock_page_ok(nr) == nr # NULL_PAGE_NR

\* ---------------------------------------------------------------- extents
\* PageLevel as a number: L0, L1, L2 are 0, 1, 2 and Option::None is None.
is_indirect(level) == level >= 1

from_pages(pages) ==
    IF pages = 0 THEN None
    ELSE IF pages = 1 THEN 0
    ELSE IF pages <= FAN_OUT THEN 1
    ELSE 2

child_pages(level) == IF level = 0 THEN 0 ELSE IF level = 1 THEN 1 ELSE FAN_OUT

RECURSIVE find_page(_, _, _, _)
find_page(d, page_nr, index, level) ==
    IF is_indirect(level)
    THEN IF ~lock_page_ok(page_nr) THEN None
         ELSE find_page(d, Slot(PageOf(d, page_nr), index \div child_pages(level)),
                        index % child_pages(level), level - 1)
    ELSE page_nr

\* find_page_mut(&mut page_nr, ..): ret.root is what page_nr holds afterwards,
\* ret.leaf the data page found.
RECURSIVE find_page_mut(_, _, _, _)
find_page_mut(d, page_nr, index, level) ==
    CHOOSE it \in {
        IF Stop(m) THEN m
        ELSE IF is_indirect(level)
        THEN CHOOSE it \in {
                 IF Stop(c) THEN c
                 ELSE Ret(WritePage(c, m.ret, Put(PageOf(c, m.ret), index \div child_pages(level),
                                                  c.ret.root)),
                          [root |-> m.ret, leaf |-> c.ret.leaf])
                 : c \in {find_page_mut(m, Slot(PageOf(m, m.ret), index \div child_pages(level)),
                                        index % child_pages(level), level - 1)}} : TRUE
        ELSE Ret(m, [root |-> m.ret, leaf |-> m.ret])
        : m \in {lock_page_mut(d, page_nr)}} : TRUE

RECURSIVE allocate_full(_, _, _)
RECURSIVE AllocateFullChildren(_, _, _, _)
allocate_full(d, page_nr, level) ==
    CHOOSE it \in {
        IF Stop(m) \/ ~is_indirect(level) THEN m
        ELSE Ret(AllocateFullChildren(m, m.ret, 0, level - 1), m.ret)
        : m \in {lock_page_mut(d, page_nr)}} : TRUE

AllocateFullChildren(d, nr, i, child_level) ==
    IF Stop(d) \/ i >= FAN_OUT THEN d
    ELSE CHOOSE it \in {
             IF Stop(c) THEN c
             ELSE AllocateFullChildren(WritePage(c, nr, Put(PageOf(c, nr), i, c.ret)),
                                       nr, i + 1, child_level)
             : c \in {allocate_full(d, Slot(PageOf(d, nr), i), child_level)}} : TRUE

RECURSIVE extent_allocate(_, _, _, _, _)
RECURSIVE AllocateChild(_, _, _, _, _, _)
RECURSIVE AllocateFullRange(_, _, _, _, _)
\* cursor.rs allocate(&mut page_nr, from, to, level): ret is page_nr afterwards.
extent_allocate(d, page_nr, from, to, level) ==
    CHOOSE it \in {
        IF Stop(m) \/ from = to \/ ~is_indirect(level) THEN m
        ELSE LET cp == child_pages(level)
                 from_index == from \div cp
                 to_index == to \div cp
             IN  IF from_index = to_index
                 THEN AllocateChild(m, m.ret, from_index, from % cp, to % cp, level - 1)
                 ELSE CHOOSE it \in {
                          IF to % cp # 0
                          THEN AllocateChild(a2, m.ret, to_index, 0, to % cp, level - 1)
                          ELSE Ret(a2, m.ret)
                          : a2 \in {AllocateFullRange(
                                        AllocateChild(m, m.ret, from_index, from % cp, cp, level - 1),
                                        m.ret, from_index + 1, to_index, level - 1)}} : TRUE
        : m \in {lock_page_mut(d, page_nr)}} : TRUE

\* allocate(&mut page[i], ..) for child i of the indirect page nr.
AllocateChild(d, nr, i, from, to, child_level) ==
    IF Stop(d) THEN d
    ELSE IF i >= FAN_OUT THEN Panic(d)
    ELSE CHOOSE it \in {
             IF Stop(c) THEN c
             ELSE Ret(WritePage(c, nr, Put(PageOf(c, nr), i, c.ret)), nr)
             : c \in {extent_allocate(d, Slot(PageOf(d, nr), i), from, to, child_level)}} : TRUE

\* for child in page[from_index + 1..to_index]: allocate_full(child, ..)
AllocateFullRange(d, nr, i, to_index, child_level) ==
    IF Stop(d) \/ i >= to_index THEN d
    ELSE CHOOSE it \in {
             IF Stop(c) THEN c
             ELSE AllocateFullRange(WritePage(c, nr, Put(PageOf(c, nr), i, c.ret)),
                                    nr, i + 1, to_index, child_level)
             : c \in {allocate_full(d, Slot(PageOf(d, nr), i), child_level)}} : TRUE

RECURSIVE deallocate_full(_, _, _, _)
RECURSIVE DeallocateFullChildren(_, _, _, _)
deallocate_full(d, page_nr, index, level) ==
    IF Stop(d) THEN d
    ELSE IF ~lock_page_ok(page_nr) THEN Panic(d)
    ELSE IF is_indirect(level)
    THEN lock_deallocate(DeallocateFullChildren(d, page_nr, index, level - 1), page_nr)
    ELSE lock_deallocate(d, page_nr)

\* while index < FAN_OUT && page[index] != NULL_PAGE_NR
DeallocateFullChildren(d, page_nr, index, child_level) ==
    IF Stop(d) \/ index >= FAN_OUT
       \/ Slot(PageOf(d, page_nr), index) = NULL_PAGE_NR
    THEN d
    ELSE DeallocateFullChildren(
             deallocate_full(d, Slot(PageOf(d, page_nr), index), 0, child_level),
             page_nr, index + 1, child_level)

\* the loop of deallocate_from: free and clear the children after index
RECURSIVE DeallocateRest(_, _, _, _)
DeallocateRest(d, nr, index, child_level) ==
    IF Stop(d) \/ index >= FAN_OUT \/ Slot(PageOf(d, nr), index) = NULL_PAGE_NR
    THEN d
    ELSE CHOOSE it \in {
             DeallocateRest(WritePage(f, nr, Put(PageOf(f, nr), index, NULL_PAGE_NR)),
                            nr, index + 1, child_level)
             : f \in {deallocate_full(d, Slot(PageOf(d, nr), index), 0, child_level)}} : TRUE

\* deallocate_from(&mut page_nr, from, level): ret is page_nr afterwards.
RECURSIVE deallocate_from(_, _, _, _)
deallocate_from(d, page_nr, from, level) ==
    IF Stop(d) THEN d
    ELSE IF is_indirect(level)
    THEN LET cp == child_pages(level)
             index == from \div cp
             child_from == from % cp
         IN  IF index = 0 /\ child_from = 0
             THEN Ret(deallocate_full(d, page_nr, 0, level), NULL_PAGE_NR)
             ELSE CHOOSE it \in {
                      IF Stop(m) THEN m
                      ELSE CHOOSE it \in {
                               IF Stop(c) THEN c
                               ELSE Ret(DeallocateRest(
                                            WritePage(c, m.ret, Put(PageOf(c, m.ret), index, c.ret)),
                                            m.ret, index + 1, level - 1), m.ret)
                               : c \in {deallocate_from(m, Slot(PageOf(m, m.ret), index),
                                                        child_from, level - 1)}} : TRUE
                      : m \in {lock_page_mut(d, page_nr)}} : TRUE
    ELSE Ret(lock_deallocate(d, page_nr), NULL_PAGE_NR)

\* increment_levels; ret is [root, pages, level] afterwards.
increment_levels(d, root_nr, pages, level) ==
    CHOOSE it \in {
        IF Stop(n) THEN n
        ELSE IF level >= 2 THEN Panic(n)
        ELSE CHOOSE it \in {
                 IF Stop(a) THEN a
                 ELSE Ret(WritePage(a, n.ret, Put(PageOf(a, n.ret), 0, a.ret)),
                          [root |-> n.ret, pages |-> child_pages(level + 1), level |-> level + 1])
                 : a \in {IF level # None
                          THEN extent_allocate(n, root_nr, pages, child_pages(level + 1), level)
                          ELSE Ret(n, root_nr)}} : TRUE
        : n \in {lock_page_mut(d, NULL_PAGE_NR)}} : TRUE

decrement_levels(d, root_nr, pages, level) ==
    IF level = None THEN Panic(d)
    ELSE IF is_indirect(level) /\ ~lock_page_ok(root_nr) THEN Panic(d)
    ELSE Ret(deallocate_full(d, root_nr, 1, level),
             [root |-> IF is_indirect(level) THEN Slot(PageOf(d, root_nr), 0) ELSE NULL_PAGE_NR,
              pages |-> child_pages(level),
              level |-> level - 1])

RECURSIVE ReallocateLevels(_, _, _, _, _)
ReallocateLevels(d, root_nr, pages, level, new_level) ==
    IF Stop(d) \/ level = new_level
    THEN Ret(d, [root |-> root_nr, pages |-> pages, level |-> level])
    ELSE CHOOSE it \in {
             IF Stop(s) THEN s
             ELSE ReallocateLevels(s, s.ret.root, s.ret.pages, s.ret.level, new_level)
             : s \in {IF level < new_level
                      THEN increment_levels(d, root_nr, pages, level)
                      ELSE decrement_levels(d, root_nr, pages, level)}} : TRUE

\* cursor.rs reallocate(&mut root_nr, current_pages, new_pages): ret is root_nr
\* afterwards.
extent_reallocate(d, root_nr, current_pages, new_pages) ==
    CHOOSE it \in {
        IF Stop(l) THEN l
        ELSE IF l.ret.pages < new_pages
        THEN extent_allocate(l, l.ret.root, l.ret.pages, new_pages, l.ret.level)
        ELSE IF l.ret.pages = new_pages THEN Ret(l, l.ret.root)
        ELSE deallocate_from(l, l.ret.root, new_pages, l.ret.level)
        : l \in {ReallocateLevels(d, root_nr, current_pages, from_pages(current_pages),
                                  from_pages(new_pages))}} : TRUE

\* ---------------------------------------------------------------- vec
\* size_of::<T>() of the element type: one element fills a page.
ELEMENT_SIZE == 8192

elements_per_page == PAGE_SIZE \div ELEMENT_SIZE

\* VecHeader::pages
vec_pages(len) == (len + elements_per_page - 1) \div elements_per_page

internal_resize(d, h, new_len) ==
    CHOOSE it \in {IF Stop(r) THEN r ELSE Ret(r, [root |-> r.ret, len |-> new_len])
                   : r \in {extent_reallocate(d, h.root, vec_pages(h.len), vec_pages(new_len))}} : TRUE

\* Index::index on a guard with an empty lookup cache: ret is the element read.
vec_index(d, h, index) ==
    IF index >= h.len \/ index \div elements_per_page >= vec_pages(h.len) THEN Panic(d)
    ELSE CHOOSE it \in {
             IF nr = None \/ ~lock_page_ok(nr) THEN Panic(d)
             ELSE Ret(Touch(d, nr), Slot(PageOf(d, nr), index % elements_per_page))
             : nr \in {find_page(d, h.root, index \div elements_per_page,
                                 from_pages(vec_pages(h.len)))}} : TRUE

\* IndexMut::index_mut followed by the store of value: ret is the header.
vec_store(d, h, index, value) ==
    IF Stop(d) THEN d
    ELSE IF index >= h.len \/ index \div elements_per_page >= vec_pages(h.len)
    THEN Panic(d)
    ELSE CHOOSE it \in {
             IF Stop(m) THEN m
             ELSE IF ~can_write(m, m.ret.leaf) THEN Panic(m)
             ELSE Ret(WritePage(m, m.ret.leaf,
                                Put(PageOf(m, m.ret.leaf), index % elements_per_page, value)),
                      [root |-> m.ret.root, len |-> h.len])
             : m \in {find_page_mut(d, h.root, index \div elements_per_page,
                                    from_pages(vec_pages(h.len)))}} : TRUE

push(d, h, value) ==
    CHOOSE it \in {IF Stop(r) THEN r ELSE vec_store(r, r.ret, h.len, value)
                   : r \in {internal_resize(d, h, h.len + 1)}} : TRUE

pop(d, h) ==
    IF h.len > 0
    THEN internal_resize(vec_index(d, h, h.len - 1), h, h.len - 1)
    ELSE Ret(d, h)

\* ---------------------------------------------------------------- page lookup
\* A PageLookup is [kind, key, nr] with kind "Invalid", "Immutable" or
\* "Mutable". The operators on a guard return [m, lookup]: the machine after
\* the call and the guard's lookup cache.
Invalid == [kind |-> "Invalid", key |-> 0, nr |-> NULL_PAGE_NR]

\* PageLookup::get, the test of the cached entry: key == index.
lookup_hit(lk, index) == lk.kind # "Invalid" /\ lk.key = index

\* PageLookup::get: [lookup, nr].
lookup_get(d, lk, root_nr, pages, index) ==
    IF lookup_hit(lk, index) THEN [lookup |-> lk, nr |-> lk.nr]
    ELSE CHOOSE it \in {[lookup |-> [kind |-> "Immutable", key |-> index, nr |-> nr], nr |-> nr]
                        : nr \in {find_page(d, root_nr, index, from_pages(pages))}} : TRUE

\* PageLookup::get_mut: m.ret is [root, leaf], the root afterwards and the
\* page found.
lookup_get_mut(d, lk, root_nr, pages, index) ==
    IF lookup_hit(lk, index) /\ (lk.kind = "Mutable" \/ can_write(d, lk.nr))
    THEN [m |-> Ret(d, [root |-> root_nr, leaf |-> lk.nr]),
          lookup |-> [kind |-> "Mutable", key |-> index, nr |-> lk.nr]]
    ELSE CHOOSE it \in {[m |-> m,
                         lookup |-> IF Stop(m) THEN lk
                                    ELSE [kind |-> "Mutable", key |-> index, nr |-> m.ret.leaf]]
                        : m \in {find_page_mut(d, root_nr, index, from_pages(pages))}} : TRUE

\* Index::index of a VecGuard: m.ret is the element read.
guard_index(d, lk, h, index) ==
    IF index >= h.len THEN [m |-> Panic(d), lookup |-> lk]
    ELSE CHOOSE it \in {
             IF g.nr = None \/ ~lock_page_ok(g.nr) THEN [m |-> Panic(d), lookup |-> g.lookup]
             ELSE [m |-> Ret(Touch(d, g.nr), Slot(PageOf(d, g.nr), index % elements_per_page)),
                   lookup |-> g.lookup]
             : g \in {lookup_get(d, lk, h.root, vec_pages(h.len), index \div elements_per_page)}}
             : TRUE

\* IndexMut::index_mut of a VecGuard followed by the store of value: m.ret is
\* the header.
guard_store(d, lk, h, index, value) ==
    IF Stop(d) THEN [m |-> d, lookup |-> lk]
    ELSE IF index >= h.len THEN [m |-> Panic(d), lookup |-> lk]
    ELSE CHOOSE it \in {
             IF Stop(g.m) THEN g
             ELSE IF ~can_write(g.m, g.m.ret.leaf) THEN [g EXCEPT !.m = Panic(g.m)]
             ELSE [g EXCEPT !.m = Ret(WritePage(g.m, g.m.ret.leaf,
                                                Put(PageOf(g.m, g.m.ret.leaf),
                                                    index % elements_per_page, value)),
                                      [root |-> g.m.ret.root, len |-> h.len])]
             : g \in {lookup_get_mut(d, lk, h.root, vec_pages(h.len),
                                      index \div elements_per_page)}} : TRUE

\* VecGuard::push
guard_push(d, lk, h, value) ==
    CHOOSE it \in {IF Stop(r) THEN [m |-> r, lookup |-> lk]
                   ELSE guard_store(r, lk, r.ret, h.len, value)
                   : r \in {internal_resize(d, h, h.len + 1)}} : TRUE

\* VecGuard::pop
guard_pop(d, lk, h) ==
    IF h.len > 0
    THEN CHOOSE it \in {[m |-> internal_resize(g.m, h, h.len - 1), lookup |-> g.lookup]
                        : g \in {guard_index(d, lk, h, h.len - 1)}} : TRUE
    ELSE [m |-> Ret(d, h), lookup |-> lk]

\* ---------------------------------------------------------------- file
\* FileHeader::pages
file_pages(len) == (len + PAGE_SIZE - 1) \div PAGE_SIZE

set_len(d, h, size) ==
    CHOOSE it \in {IF Stop(r) THEN r ELSE Ret(r, [root |-> r.ret, len |-> size])
                   : r \in {extent_reallocate(d, h.root, file_pages(h.len), file_pages(size))}} : TRUE

\* Write::write of n bytes at byte position pos, all inside one page; the bytes
\* are the word `word` of that page, which becomes value. ret is the header.
file_write(d, h, pos, n, word, value) ==
    IF Stop(d) THEN d
    ELSE CHOOSE it \in {
             IF Stop(s) THEN s
             ELSE IF pos \div PAGE_SIZE >= file_pages(s.ret.len) THEN Panic(s)
             ELSE CHOOSE it \in {
                      IF Stop(m) THEN m
                      ELSE IF ~can_write(m, m.ret.leaf) THEN Panic(m)
                      ELSE Ret(WritePage(m, m.ret.leaf, Put(PageOf(m, m.ret.leaf), word, value)),
                               [root |-> m.ret.root, len |-> s.ret.len])
                      : m \in {find_page_mut(s, s.ret.root, pos \div PAGE_SIZE,
                                             from_pages(file_pages(s.ret.len)))}} : TRUE
             : s \in {IF pos + n > h.len THEN set_len(d, h, pos + n) ELSE Ret(d, h)}} : TRUE

\* Vec::serialize into the root file: 4 bytes of root, then 8 bytes of len.
serialize(d, fh, vh) ==
    CHOOSE it \in {IF Stop(w1) THEN w1 ELSE file_write(w1, w1.ret, 4, 8, 1, vh.len)
                   : w1 \in {file_write(d, fh, 0, 4, 0, vh.root)}} : TRUE

\* Vec::deserialize from the root file as it stands in the page image img;
\* [some |-> FALSE] when read_exact hits the end of the file.
deserialize(img, fh) ==
    IF fh.len < 12 \/ ~lock_page_ok(fh.root) \/ ~InRange(fh.root) THEN [some |-> FALSE]
    ELSE CHOOSE it \in {
             IF nr = None \/ ~InRange(nr) \/ ~lock_page_ok(nr) THEN [some |-> FALSE]
             ELSE [some |-> TRUE, root |-> Slot(img[nr], 0), len |-> Slot(img[nr], 1)]
             : nr \in {find_page([pages |-> img], fh.root, 0, from_pages(file_pages(fh.len)))}} : TRUE

\* ---------------------------------------------------------------- header
\* AllocatorState::default, State::default
DefaultFreeList == [root |-> NULL_PAGE_NR, front |-> 0, back |-> 0]

DefaultAllocatorState ==
    [previous_free |-> DefaultFreeList, current_free |-> DefaultFreeList, last_page |-> 1]

DefaultState ==
    [version |-> 0, allocator |-> DefaultAllocatorState, root_nr |-> NULL_PAGE_NR,
     root_len |-> 0]

\* The SHA3-512 of a State is modelled by the State itself (collision free).
checksum(st) == st

\* Snapshot::new
SnapshotNew(st) == [state |-> st, checksum |-> checksum(st)]

is_valid(snapshot) == checksum(snapshot.state) = snapshot.checksum

\* Header::new: the two slots, index 0 and 1, are elements 1 and 2.
HeaderNew == <<SnapshotNew(DefaultState), SnapshotNew(DefaultState)>>

\* Header::snapshot
header_snapshot(h, st) == [h EXCEPT ![(st.version % 2) + 1] = SnapshotNew(st)]

\* A check of the slot that leaves out the parity of its version.
valid_snapshot_checksum(h, index) == is_valid(h[index + 1])

valid_snapshot(h, index) ==
    h[index + 1].state.version % 2 = index % 2 /\ is_valid(h[index + 1])

\* Header::last_snapshot: [some |-> FALSE] is Option::None; None < Some(_).
last_snapshot(h) ==
    LET v0 == IF valid_snapshot(h, 0) THEN h[1].state.version ELSE None
        v1 == IF valid_snapshot(h, 1) THEN h[2].state.version ELSE None
    IN  IF v0 <= v1
        THEN IF valid_snapshot(h, 1) THEN [some |-> TRUE, state |-> h[2].state]
             ELSE [some |-> FALSE]
        ELSE [some |-> TRUE, state |-> h[1].state]

\* A swap that would leave an empty current list.
swap_empty(st) ==
    [st EXCEPT !.previous_free = st.current_free,
               !.current_free = [root |-> NULL_PAGE_NR, front |-> 0, back |-> 0]]

\* AllocatorState::swap
swap(st) ==
    [st EXCEPT !.previous_free = st.current_free,
               !.current_free = reset_front(st.previous_free)]

\* ---------------------------------------------------------------- reading back
\* What a reader sees of the vector through header vh in the page image img.
ReadVec(img, vh) ==
    IF vh.len > MaxLen THEN [ok |-> FALSE]
    ELSE LET at(i) == find_page([pages |-> img], vh.root, i \div elements_per_page,
                                from_pages(vec_pages(vh.len)))
         IN  IF \E i \in 0..(vh.len - 1) : at(i) = None \/ ~InRange(at(i)) \/ ~lock_page_ok(at(i))
             THEN [ok |-> FALSE]
             ELSE [ok |-> TRUE,
                   elems |-> [i \in 1..vh.len |->
                                 Slot(img[at(i - 1)], (i - 1) % elements_per_page)]]

\* The content of the database whose committed state is st, in the image img.
ReadContent(img, st) ==
    CHOOSE it \in {IF ~vh.some THEN [ok |-> FALSE] ELSE ReadVec(img, vh)
                   : vh \in {deserialize(img, [root |-> st.root_nr, len |-> st.root_len])}} : TRUE

\* Pages of the extent tree under nr.
RECURSIVE ExtentPages(_, _, _)
ExtentPages(img, nr, level) ==
    IF nr = NULL_PAGE_NR \/ ~InRange(nr) \/ level = None THEN {}
    ELSE IF is_indirect(level)
    THEN {nr} \cup UNION {ExtentPages(img, img[nr][i], level - 1) : i \in DOMAIN img[nr]}
    ELSE {nr}

\* Pages that make up the tree of a free list.
RECURSIVE FreeListPages(_, _, _)
FreeListPages(img, nr, depth) ==
    IF nr = NULL_PAGE_NR \/ ~InRange(nr) THEN {}
    ELSE IF depth < MAX_DEPTH
    THEN {nr} \cup UNION {FreeListPages(img, img[nr][i], depth + 1) : i \in DOMAIN img[nr]}
    ELSE {nr}

\* Page numbers a free list holds in its window [front, back).
FreeListEntries(img, fl) ==
    {get_in_page([pages |-> img], fl.root, i, 0) : i \in fl.front..(fl.back - 1)}

\* Every page the committed state st refers to in the image img.
SnapshotPages(img, st) ==
    ExtentPages(img, st.root_nr, from_pages(file_pages(st.root_len)))
    \cup UNION {IF ~vh.some \/ vh.len > MaxLen THEN {}
                ELSE ExtentPages(img, vh.root, from_pages(vec_pages(vh.len)))
                : vh \in {deserialize(img, [root |-> st.root_nr, len |-> st.root_len])}}
    \cup FreeListPages(img, st.allocator.previous_free.root, 0)
    \cup FreeListPages(img, st.allocator.current_free.root, 0)

\* ---------------------------------------------------------------- tree nodes
\* The model's tree is a Tree<K, V> with size_of::<K>() = KEY_SIZE and V = u32:
\* a leaf holds up to 3 entries. A node page is read by byte offset: key i at
\* i * KEY_SIZE, value i at value_offset + i * VALUE_SIZE, the u16 footer at
\* PAGE_SIZE - 2 (bit 15 set for a branch, the low bits the length).
KEY_SIZE == 2048
VALUE_SIZE == 4
BRANCH_FLAG == 32768

\* Keys the model inserts and removes.
Keys == 1..MaxKey

\* Leaf::order; align_of::<V>() = size_of::<V>() for u32.
LeafOrder ==
    LET order == (PAGE_SIZE - 2) \div (KEY_SIZE + VALUE_SIZE)
        mismatch == (order * KEY_SIZE) % VALUE_SIZE
    IN  IF mismatch = 0 \/ order * (KEY_SIZE + VALUE_SIZE) + VALUE_SIZE - mismatch <= PAGE_SIZE - 2
        THEN order
        ELSE order - 1

\* Leaf::value_offset
value_offset ==
    LET mismatch == (LeafOrder * KEY_SIZE) % VALUE_SIZE
    IN  IF mismatch = 0 THEN LeafOrder * KEY_SIZE
        ELSE LeafOrder * KEY_SIZE + VALUE_SIZE - mismatch

\* Branch::child_offset, with Branch::key_order computed as in the source.
child_offset ==
    LET order == (PAGE_SIZE - 6) \div (KEY_SIZE + PAGE_NR_SIZE)
        mismatch == (order * KEY_SIZE) % PAGE_NR_SIZE
        key_order == IF mismatch = 0
                        \/ order * (KEY_SIZE + PAGE_NR_SIZE) + PAGE_NR_SIZE - mismatch <= PAGE_SIZE - 6
                     THEN order ELSE order - 1
        key_mismatch == (key_order * KEY_SIZE) % PAGE_NR_SIZE
    IN  IF key_mismatch = 0 THEN key_order * KEY_SIZE
        ELSE key_order * KEY_SIZE + PAGE_NR_SIZE - key_mismatch

\* NodePage::len, is_leaf, set_len
node_len(page) == Slot(page, PAGE_SIZE - 2) % BRANCH_FLAG

is_leaf(page) == Slot(page, PAGE_SIZE - 2) \div BRANCH_FLAG = 0

node_set_len(page, len) ==
    Put(page, PAGE_SIZE - 2, (Slot(page, PAGE_SIZE - 2) \div BRANCH_FLAG) * BRANCH_FLAG + len)

\* The n items of the given size that start at byte offset, and their store.
Slice(page, offset, size, n) == [i \in 1..n |-> Slot(page, offset + (i - 1) * size)]

PutSlice(page, offset, size, s) ==
    LET at == {offset + (i - 1) * size : i \in 1..Len(s)}
    IN  [j \in ((DOMAIN page) \ at) \cup {offset + (i - 1) * size : i \in {k \in 1..Len(s) : s[k] # 0}}
            |-> IF j \in at THEN s[((j - offset) \div size) + 1] ELSE page[j]]

\* Leaf::keys, Leaf::values
leaf_keys(page) == Slice(page, 0, KEY_SIZE, node_len(page))

leaf_values(page) == Slice(page, value_offset, VALUE_SIZE, node_len(page))

\* Leaf::search: binary_search over the sorted keys; index is the position of
\* the key, or the position where it would be inserted.
leaf_search(page, key) ==
    LET ks == leaf_keys(page)
    IN  IF \E i \in 1..Len(ks) : ks[i] = key
        THEN [found |-> TRUE, index |-> (CHOOSE i \in 1..Len(ks) : ks[i] = key) - 1]
        ELSE [found |-> FALSE, index |-> Cardinality({i \in 1..Len(ks) : ks[i] < key})]

\* A Leaf::insert that stores the new item behind the last one.
leaf_insert_last(page, index, key, value) ==
    PutSlice(PutSlice(node_set_len(page, node_len(page) + 1), node_len(page) * KEY_SIZE,
                      KEY_SIZE, <<key>>),
             value_offset + node_len(page) * VALUE_SIZE, VALUE_SIZE, <<value>>)

\* Leaf::insert for index <= len: the items from index on move up by one.
leaf_insert(page, index, key, value) ==
    LET ks == leaf_keys(page)
        vs == leaf_values(page)
        len == node_len(page)
    IN  PutSlice(PutSlice(node_set_len(page, len + 1), 0, KEY_SIZE,
                          SubSeq(ks, 1, index) \o <<key>> \o SubSeq(ks, index + 1, len)),
                 value_offset, VALUE_SIZE,
                 SubSeq(vs, 1, index) \o <<value>> \o SubSeq(vs, index + 1, len))

\* Leaf::delete for index < len: the items after index move down by one; the
\* bytes of the last item stay where they were.
leaf_delete(page, index) ==
    LET ks == leaf_keys(page)
        vs == leaf_values(page)
        len == node_len(page)
    IN  node_set_len(PutSlice(PutSlice(page, index * KEY_SIZE, KEY_SIZE, SubSeq(ks, index + 2, len)),
                              value_offset + index * VALUE_SIZE, VALUE_SIZE,
                              SubSeq(vs, index + 2, len)),
                     len - 1)

\* Leaf::split of a full leaf: [self, other] are the two pages afterwards.
leaf_split(page, other) ==
    LET mid == (LeafOrder + 1) \div 2
    IN  [self |-> node_set_len(page, mid),
         other |-> PutSlice(PutSlice(node_set_len(other, LeafOrder - mid), 0, KEY_SIZE,
                                     SubSeq(leaf_keys(page), mid + 1, node_len(page))),
                            value_offset, VALUE_SIZE,
                            SubSeq(leaf_values(page), mid + 1, node_len(page)))]

\* Branch::keys, Branch::children, Branch::search
branch_keys(page) == Slice(page, 0, KEY_SIZE, node_len(page) - 1)

branch_children(page) == Slice(page, child_offset, PAGE_NR_SIZE, node_len(page))

branch_search(page, key) ==
    Cardinality({i \in 1..(node_len(page) - 1) : branch_keys(page)[i] <= key})

\* ---------------------------------------------------------------- tree cursor
\* The multi-level paths of the cursor (a parent above the cursor's level, the
\* rebalance of a node under a branch) are outside the model.
Beyond(d) == [d EXCEPT !.beyond = TRUE]

\* node::allocate: the page keeps its bytes, only the footer is written.
node_allocate(d, leaf) ==
    CHOOSE it \in {
        IF Stop(a) THEN a
        ELSE IF ~can_write(a, a.ret) THEN Panic(a)
        ELSE WritePage(a, a.ret, Put(PageOf(a, a.ret), PAGE_SIZE - 2, IF leaf THEN 0 ELSE BRANCH_FLAG))
        : a \in {lock_allocate(d)}} : TRUE

\* Cursor::new: entries[1] is the leaf entry, the last entry the root's;
\* vacant is key.is_some(), the key was not found.
RECURSIVE CursorNew(_, _, _, _)
CursorNew(img, page_nr, key, entries) ==
    IF page_nr = NULL_PAGE_NR \/ ~InRange(page_nr)
    THEN [entries |-> entries, vacant |-> TRUE]
    ELSE IF is_leaf(img[page_nr])
    THEN [entries |-> <<[page_nr |-> page_nr, index |-> leaf_search(img[page_nr], key).index]>>
                      \o entries,
          vacant |-> ~leaf_search(img[page_nr], key).found]
    ELSE CursorNew(img, Slot(img[page_nr], child_offset
                                           + branch_search(img[page_nr], key) * PAGE_NR_SIZE),
                   key,
                   <<[page_nr |-> page_nr, index |-> branch_search(img[page_nr], key)]>> \o entries)

\* Cursor::value: the value found, or None.
cursor_value(img, cur) ==
    IF cur.vacant THEN None
    ELSE leaf_values(img[cur.entries[1].page_nr])[cur.entries[1].index + 1]

\* Cursor::page_mut: ret is [root, nr], the root afterwards and the page to write.
cursor_page_mut(d, cur, root, level) ==
    IF can_write(d, cur.entries[level + 1].page_nr)
    THEN Ret(d, [root |-> root, nr |-> cur.entries[level + 1].page_nr])
    ELSE IF level + 1 < Len(cur.entries) THEN Beyond(d)
    ELSE CHOOSE it \in {IF Stop(m) THEN m ELSE Ret(m, [root |-> m.ret, nr |-> m.ret])
                        : m \in {lock_page_mut(d, root)}} : TRUE

\* Cursor::parent_insert at the root level: Branch::allocate leaves the new
\* branch with len 0, children_mut() is the empty slice and children_mut()[0]
\* is out of bounds.
parent_insert(d, cur, level) ==
    IF level = Len(cur.entries) - 1
    THEN CHOOSE it \in {
             IF Stop(b) THEN b
             ELSE IF 0 >= Len(branch_children(PageOf(b, b.ret))) THEN Panic(b)
             ELSE Beyond(b)
             : b \in {node_allocate(d, FALSE)}} : TRUE
    ELSE Beyond(d)

\* Cursor::set_value on a full leaf nr: split, parent_insert, insert.
SplitInsert(d, cur, root, nr, index, key, value) ==
    CHOOSE it \in {
        IF Stop(o) THEN o
        ELSE CHOOSE it \in {
                 IF Stop(p) THEN p
                 ELSE IF index < node_len(PageOf(p, nr))
                 THEN Ret(WritePage(p, nr, leaf_insert(PageOf(p, nr), index, key, value)), root)
                 ELSE Ret(WritePage(p, o.ret,
                                    leaf_insert(PageOf(p, o.ret), index - node_len(PageOf(p, nr)),
                                                key, value)), root)
                 : p \in {parent_insert(
                              WritePage(WritePage(o, nr, leaf_split(PageOf(o, nr), PageOf(o, o.ret)).self),
                                        o.ret, leaf_split(PageOf(o, nr), PageOf(o, o.ret)).other),
                              cur, 0)}} : TRUE
        : o \in {node_allocate(d, TRUE)}} : TRUE

\* Cursor::set_value: ret is the root afterwards.
set_value(d, cur, root, key, value) ==
    IF cur.entries = <<>>
    THEN IF cur.vacant
         THEN CHOOSE it \in {
                  IF Stop(a) THEN a
                  ELSE Ret(WritePage(a, a.ret, leaf_insert(PageOf(a, a.ret), 0, key, value)), a.ret)
                  : a \in {node_allocate(d, TRUE)}} : TRUE
         ELSE Ret(d, root)
    ELSE CHOOSE it \in {
             IF Stop(m) THEN m
             ELSE LET nr == m.ret.nr
                      index == cur.entries[1].index
                  IN  IF cur.vacant
                      THEN IF node_len(PageOf(m, nr)) < LeafOrder
                           THEN Ret(WritePage(m, nr, leaf_insert(PageOf(m, nr), index, key, value)),
                                    m.ret.root)
                           ELSE SplitInsert(m, cur, m.ret.root, nr, index, key, value)
                      ELSE IF ~(index < node_len(PageOf(m, nr))) THEN Ret(m, m.ret.root)
                      ELSE Ret(WritePage(m, nr, PutSlice(PageOf(m, nr),
                                                         value_offset + index * VALUE_SIZE,
                                                         VALUE_SIZE, <<value>>)),
                               m.ret.root)
             : m \in {cursor_page_mut(d, cur, root, 0)}} : TRUE

\* Cursor::delete: ret is the root afterwards.
delete(d, cur, root) ==
    IF cur.entries = <<>> \/ cur.vacant THEN Ret(d, root)
    ELSE CHOOSE it \in {
             IF Stop(m) THEN m
             ELSE CHOOSE it \in {
                      IF Len(cur.entries) > 1 /\ node_len(leaf) * 2 < LeafOrder
                      THEN Beyond(m)
                      ELSE IF Len(cur.entries) = 1 /\ node_len(leaf) = 0
                      THEN Ret(lock_deallocate(WritePage(m, m.ret.nr, leaf), m.ret.root), NULL_PAGE_NR)
                      ELSE Ret(WritePage(m, m.ret.nr, leaf), m.ret.root)
                      : leaf \in {leaf_delete(PageOf(m, m.ret.nr), cur.entries[1].index)}} : TRUE
             : m \in {cursor_page_mut(d, cur, root, 0)}} : TRUE

\* TreeGuard::insert, TreeGuard::remove, TreeGuard::get
tree_insert(d, root, key, value) ==
    set_value(d, CursorNew(d.pages, root, key, <<>>), root, key, value)

tree_remove(d, root, key) == delete(d, CursorNew(d.pages, root, key, <<>>), root)

tree_get(img, root, key) == cursor_value(img, CursorNew(img, root, key, <<>>))

\* ---------------------------------------------------------------- regions
\* World::configuration of the persistent world: size, static_distance and
\* full_distance.
VARIABLE configuration

\* The world is configuration.size x configuration.size regions. A Position
\* is [x, z] in quarters of a region's side (Configuration::region_size is
\* REGION_SIZE).
REGION_SIZE == 4

Uuids == 1..MaxObservers

\* The users that are connected: those that take part in the world, and one
\* more that has PCs but never gets an observer.
Users == 1..(MaxObservers + 1)

\* protocol::SLOT_COUNT, the number of slots of a player. Its definition is not
\* part of the sources at hand; one slot makes slot 0 legal and slot 1 illegal.
SLOT_COUNT == 1

\* The slot indices a request can carry: the legal ones and one beyond them.
SlotInputs == 0..SLOT_COUNT

\* A code that does not tell the errors apart.
code_one(error) == 1001

\* RequestError::code
code(error) ==
    CASE error = "IllegalSlot" -> 1001
      [] error = "SlotAlreadyBound" -> 1002
      [] error = "SlotNotBound" -> 1003
      [] error = "NotInGame" -> 1004
      [] error = "AlreadyInGame" -> 1005

\* validate_slot(slot).is_ok()
validate_slot(slot) == slot < SLOT_COUNT

RegionPoss == [x : 0..(configuration.size - 1), z : 0..(configuration.size - 1)]

\* The positions the model's clients report: two points a region along x,
\* one quarter from either border, in the row z = 0.
Positions ==
    {[x |-> REGION_SIZE * rx + o, z |-> 1] : rx \in 0..(configuration.size - 1), o \in {1, 3}}

\* No position: the center of no observer, the PC of no entry.
NoPosition == [x |-> -1, z |-> -1]

Max(a, b) == IF a >= b THEN a ELSE b

Min(a, b) == IF a <= b THEN a ELSE b

\* RegionPos::distance
distance(a, b) == Max(Max(a.x, b.x) - Min(a.x, b.x), Max(a.z, b.z) - Min(a.z, b.z))

\* Configuration::region
region(pos) ==
    [x |-> Min(pos.x \div REGION_SIZE, configuration.size - 1),
     z |-> Min(pos.z \div REGION_SIZE, configuration.size - 1)]

\* Configuration::near_region, both sides of each comparison doubled.
near_region(pos, r) ==
    /\ 2 * pos.x >= (2 * r.x - 1) * REGION_SIZE
    /\ 2 * pos.x <= (2 * r.x + 3) * REGION_SIZE
    /\ 2 * pos.z >= (2 * r.z - 1) * REGION_SIZE
    /\ 2 * pos.z <= (2 * r.z + 3) * REGION_SIZE

\* A RegionManager::level that leaves the regions at full_distance at Static.
level_below(d) ==
    IF d < configuration.full_distance THEN "full"
    ELSE IF d <= configuration.static_distance THEN "static"
    ELSE "none"

\* RegionManager::level; Option::None is "none".
level(d) ==
    IF d <= configuration.full_distance THEN "full"
    ELSE IF d <= configuration.static_distance THEN "static"
    ELSE "none"

\* RegionManager::iterator with RegionIterator::next: the positions in the
\* order the iterator yields them.
iterator(center) ==
    LET begin_x == Max(center.x - configuration.static_distance, 0)
        end_x == Min(center.x + configuration.static_distance + 1, configuration.size)
        begin_z == Max(center.z - configuration.static_distance, 0)
        end_z == Min(center.z + configuration.static_distance + 1, configuration.size)
    IN  [i \in 1..((end_x - begin_x) * (end_z - begin_z)) |->
            [x |-> begin_x + ((i - 1) % (end_x - begin_x)),
             z |-> begin_z + ((i - 1) \div (end_x - begin_x))]]

\* ---------------------------------------------------------------- change queue
\* An Entry is [pos, dist, uuid, change, pc]; change is "SetupStatic",
\* "SetupDynamic", "SetupPlayer", "TeardownDynamic" or "TeardownStatic" and pc
\* is the position of the PC a SetupPlayer carries.
\* Ordering of two integers: -1 Less, 0 Equal, 1 Greater.
IntCmp(a, b) == IF a < b THEN -1 ELSE IF a > b THEN 1 ELSE 0

\* Ord for Entry, line by line. The pairs of different changes that compare
\* Greater are listed; every other pair of different changes compares Less,
\* (SetupDynamic, TeardownStatic) and (TeardownStatic, SetupDynamic) both.
EntryCmp(a, b) ==
    IF a.change = b.change
    THEN LET by_dist == IF a.change \in {"SetupStatic", "SetupDynamic", "SetupPlayer"}
                        THEN IntCmp(b.dist, a.dist)
                        ELSE IntCmp(a.dist, b.dist)
         IN  IF by_dist # 0 THEN by_dist
             ELSE IF IntCmp(a.pos.x, b.pos.x) # 0 THEN IntCmp(a.pos.x, b.pos.x)
             ELSE IF IntCmp(a.pos.z, b.pos.z) # 0 THEN IntCmp(a.pos.z, b.pos.z)
             ELSE IntCmp(a.uuid, b.uuid)
    ELSE IF \/ a.change = "SetupStatic"
            \/ <<a.change, b.change>> \in {<<"SetupDynamic", "SetupPlayer">>,
                                          <<"SetupDynamic", "TeardownDynamic">>,
                                          <<"SetupPlayer", "TeardownDynamic">>,
                                          <<"SetupPlayer", "TeardownStatic">>,
                                          <<"TeardownDynamic", "TeardownStatic">>}
    THEN 1
    ELSE -1

\* PartialOrd::le, from partial_cmp.
EntryLe(a, b) == EntryCmp(a, b) <= 0

Swap(h, i, j) == [h EXCEPT ![i] = h[j], ![j] = h[i]]

\* BinaryHeap::sift_up; the heap array is 1-based here, the parent of pos is
\* pos / 2.
RECURSIVE sift_up(_, _, _)
sift_up(h, start, pos) ==
    IF pos > start /\ ~EntryLe(h[pos], h[pos \div 2])
    THEN sift_up(Swap(h, pos, pos \div 2), start, pos \div 2)
    ELSE h

\* The greater of the two children at child and child + 1, as
\* sift_down_to_bottom picks it.
GreaterChild(h, child) == IF EntryLe(h[child], h[child + 1]) THEN child + 1 ELSE child

\* BinaryHeap::sift_down_to_bottom
RECURSIVE sift_down_to_bottom(_, _)
sift_down_to_bottom(h, pos) ==
    IF 2 * pos + 1 <= Len(h)
    THEN sift_down_to_bottom(Swap(h, pos, GreaterChild(h, 2 * pos)), GreaterChild(h, 2 * pos))
    ELSE IF 2 * pos = Len(h)
    THEN sift_up(Swap(h, pos, 2 * pos), 1, 2 * pos)
    ELSE sift_up(h, 1, pos)

\* BinaryHeap::push
heap_push(h, e) == sift_up(Append(h, e), 1, Len(h) + 1)

\* BinaryHeap::pop of a heap that is not empty: the item and the heap left.
heap_pop(h) ==
    [item |-> h[1],
     heap |-> IF Len(h) = 1 THEN <<>>
              ELSE sift_down_to_bottom([SubSeq(h, 1, Len(h) - 1) EXCEPT ![1] = h[Len(h)]], 1)]

\* RegionManager::enqueue
enqueue(q, pos, center, uuid, change, pc) ==
    heap_push(q, [pos |-> pos, dist |-> distance(pos, center), uuid |-> uuid,
                  change |-> change, pc |-> pc])

\* RegionManager::update
update(q, pos, center, uuid, old_level, new_level) ==
    IF old_level = "none" /\ new_level = "static"
    THEN enqueue(q, pos, center, uuid, "SetupStatic", NoPosition)
    ELSE IF old_level = "none" /\ new_level = "full"
    THEN enqueue(enqueue(q, pos, center, uuid, "SetupStatic", NoPosition),
                 pos, center, uuid, "SetupDynamic", NoPosition)
    ELSE IF old_level = "static" /\ new_level = "none"
    THEN enqueue(q, pos, center, uuid, "TeardownStatic", NoPosition)
    ELSE IF old_level = "full" /\ new_level = "none"
    THEN enqueue(enqueue(q, pos, center, uuid, "TeardownDynamic", NoPosition),
                 pos, center, uuid, "TeardownStatic", NoPosition)
    ELSE IF old_level = "static" /\ new_level = "full"
    THEN enqueue(q, pos, center, uuid, "SetupDynamic", NoPosition)
    ELSE IF old_level = "full" /\ new_level = "static"
    THEN enqueue(q, pos, center, uuid, "TeardownDynamic", NoPosition)
    ELSE q

\* The level of pos seen from a center, "none" when there is no center.
LevelAt(pos, center) == IF center = NoPosition THEN "none" ELSE level(distance(pos, center))

\* The loops of GlobalObserver::new, update and remove: update is called for
\* the positions ps[i..] with the levels seen from old and from new.
RECURSIVE UpdateLoop(_, _, _, _, _, _, _)
UpdateLoop(q, ps, i, center, uuid, old, new) ==
    IF i > Len(ps) THEN q
    ELSE CHOOSE it \in
             {UpdateLoop(r, ps, i + 1, center, uuid, old, new) :
              r \in {update(q, ps[i], center, uuid, LevelAt(ps[i], old), LevelAt(ps[i], new))}} : TRUE

\* ---------------------------------------------------------------- region manager
\* The operators below transform a record w, the part of the ServerWorld the
\* change queue works on:
\*   regions   RegionManager::regions by position; an absent region is DefaultRegion.
\*             The field npcs is not part of the Region: it tells whether the
\*             NPCs of the position are in TransientWorld::npcs, and it outlives
\*             the entry
\*   queue     RegionManager::queue, the heap array
\*   pcs       TransientWorld::pcs by user: the PC's position and target
\*   recv      per user and region, what the user was sent: static and dynamic
\*             tell whether a setup is in force, ns and nd count the setups
\*   badStatic, badDynamic   a notification was sent out of order (history)
\*   crashed   a panic ended the service task
DefaultRegion ==
    [live |-> FALSE, observers |-> [u \in Uuids |-> "none"], full_observers |-> 0,
     dynamic_updates |-> FALSE, npcs |-> FALSE]

NoPC == [some |-> FALSE, pos |-> NoPosition, target |-> NoPosition]

Abort(w) == [w EXCEPT !.crashed = TRUE]

\* GlobalObserver::new: the capacity of the observer's notification channel.
CHANNEL_BUFFER == 16

\* observer.sender.send(message).await: the message is put into the bounded
\* channel of user u. The send_all task of a user whose client reads has taken
\* every earlier message out; the one of a user whose client does not read
\* takes none, and the send on a full channel suspends the caller.
send(w, u) ==
    IF ~w.slow[u] THEN w
    ELSE IF w.chan[u] >= CHANNEL_BUFFER THEN [w EXCEPT !.suspended = TRUE]
    ELSE [w EXCEPT !.chan[u] = @ + 1]

\* dynamic_setup, called when the count is 0: the NPCs of the region are
\* inserted into TransientWorld::npcs.
dynamic_setup(r) == IF r.full_observers = 0 THEN TRUE ELSE r.npcs

\* dynamic_teardown, called when the count has reached 0:
\* transient.npcs.remove_by_id(id).unwrap() panics for an NPC that is not there.
dynamic_teardown_panics(r) == r.full_observers = 1 /\ ~r.npcs

\* RegionManager::apply for each ObserverChange.
SetupStatic(w, e) ==
    CHOOSE it \in
        {IF s.suspended THEN s
         ELSE [s EXCEPT !.regions[e.pos].observers[e.uuid] = "static",
                        !.recv[e.uuid][e.pos] = [@ EXCEPT !.static = TRUE, !.ns = Min(@ + 1, 2)],
                        !.badStatic = @ \/ w.recv[e.uuid][e.pos].static] :
         s \in {send([w EXCEPT !.regions[e.pos] =
                                   IF @.live THEN @
                                   ELSE [DefaultRegion EXCEPT !.live = TRUE, !.npcs = w.regions[e.pos].npcs]],
                     e.uuid)}} : TRUE

SetupDynamic(w, e) ==
    IF ~w.regions[e.pos].live \/ w.regions[e.pos].observers[e.uuid] = "none" THEN Abort(w)
    ELSE CHOOSE it \in
        {IF s.suspended THEN s
         ELSE [s EXCEPT !.recv[e.uuid][e.pos] = [@ EXCEPT !.dynamic = TRUE, !.nd = Min(@ + 1, 2)]] :
         s \in {send([w EXCEPT !.regions[e.pos] = [@ EXCEPT !.full_observers = @ + 1,
                                                            !.npcs = dynamic_setup(w.regions[e.pos]),
                                                            !.observers[e.uuid] = "full"]],
                     e.uuid)}} : TRUE

\* A SetupPlayer that inserts no player character.
SetupPlayerLost(w, e) ==
    IF ~w.regions[e.pos].live THEN Abort(w)
    ELSE [w EXCEPT !.regions[e.pos].dynamic_updates = TRUE]

SetupPlayer(w, e) ==
    IF ~w.regions[e.pos].live
    THEN Abort([w EXCEPT !.pcs[e.uuid] = [some |-> TRUE, pos |-> e.pc, target |-> e.pc]])
    ELSE [w EXCEPT !.pcs[e.uuid] = [some |-> TRUE, pos |-> e.pc, target |-> e.pc],
                   !.regions[e.pos].dynamic_updates = TRUE]

\* full_observers -= 1 on 0 is an overflow: the panic of a build with overflow
\* checks. dynamic_teardown runs when the count has reached 0.
TeardownDynamic(w, e) ==
    IF ~w.regions[e.pos].live \/ w.regions[e.pos].observers[e.uuid] = "none" THEN Abort(w)
    ELSE CHOOSE it \in
        {IF s.suspended THEN s
         ELSE [s EXCEPT !.regions[e.pos].full_observers = Max(@ - 1, 0),
                        !.regions[e.pos].npcs = IF w.regions[e.pos].full_observers = 1 THEN FALSE ELSE @,
                        !.recv[e.uuid][e.pos].dynamic = FALSE,
                        !.badDynamic = @ \/ ~w.recv[e.uuid][e.pos].dynamic,
                        !.crashed = \/ w.regions[e.pos].full_observers = 0
                                    \/ dynamic_teardown_panics(w.regions[e.pos])] :
         s \in {send([w EXCEPT !.regions[e.pos].observers[e.uuid] = "static"], e.uuid)}} : TRUE

TeardownStatic(w, e) ==
    IF ~w.regions[e.pos].live \/ w.regions[e.pos].observers[e.uuid] = "none" THEN Abort(w)
    ELSE CHOOSE it \in
        {IF s.suspended THEN s
         ELSE [s EXCEPT !.regions[e.pos] =
                            IF \A u \in Uuids : @.observers[u] = "none"
                            THEN [DefaultRegion EXCEPT !.npcs = w.regions[e.pos].npcs] ELSE @,
                        !.recv[e.uuid][e.pos].static = FALSE,
                        !.badStatic = @ \/ ~w.recv[e.uuid][e.pos].static] :
         s \in {send([w EXCEPT !.regions[e.pos].observers[e.uuid] = "none"], e.uuid)}} : TRUE

apply(w, e) ==
    CASE e.change = "SetupStatic" -> SetupStatic(w, e)
      [] e.change = "SetupDynamic" -> SetupDynamic(w, e)
      [] e.change = "SetupPlayer" -> SetupPlayer(w, e)
      [] e.change = "TeardownDynamic" -> TeardownDynamic(w, e)
      [] e.change = "TeardownStatic" -> TeardownStatic(w, e)

\* The priority tier of an ObserverChange, as the arms of Entry::cmp between
\* changes of the same kind and the comments of the spec rank them.
Tier(change) ==
    CASE change = "SetupStatic" -> 5
      [] change = "SetupDynamic" -> 4
      [] change = "SetupPlayer" -> 3
      [] change = "TeardownDynamic" -> 2
      [] change = "TeardownStatic" -> 1

\* One round of the loop of RegionManager::process: p is what queue.pop() gave.
ApplyPopped(w, p) ==
    apply([w EXCEPT !.queue = p.heap,
                    !.outOfTier = @ \/ \E i \in DOMAIN p.heap :
                                           Tier(p.heap[i].change) > Tier(p.item.change)],
          p.item)

\* RegionManager::process when the timeout ends the loop after n entries.
RECURSIVE process(_, _)
process(w, n) ==
    IF n = 0 \/ w.crashed \/ w.suspended \/ w.queue = <<>> THEN w
    ELSE process(ApplyPopped(w, heap_pop(w.queue)), n - 1)

\* The regions whose DynamicUpdates message Region::flush sends to user u.
Flushed(w, u) ==
    {p \in RegionPoss : /\ w.regions[p].dynamic_updates
                        /\ w.regions[p].full_observers > 0
                        /\ w.regions[p].observers[u] = "full"}

\* RegionManager::flush with Region::flush: static_updates is always empty; the
\* DynamicUpdates of a region go to its observers of level Full. A send that
\* finds the channel full suspends the flush; which regions were flushed before
\* depends on the order of the HashMap.
flush(w) ==
    IF \E u \in Uuids : w.slow[u] /\ w.chan[u] + Cardinality(Flushed(w, u)) > CHANNEL_BUFFER
    THEN [w EXCEPT !.suspended = TRUE]
    ELSE [w EXCEPT !.regions = [p \in RegionPoss |-> [w.regions[p] EXCEPT !.dynamic_updates = FALSE]],
                   !.chan = [u \in Uuids |->
                                IF w.slow[u] THEN @[u] + Cardinality(Flushed(w, u)) ELSE @[u]],
                   !.badDynamic = @ \/ \E u \in Uuids : \E p \in Flushed(w, u) : ~w.recv[u][p].dynamic]

\* ServerWorld::update_pcs for the PCs of the users u, u + 1, ...
RECURSIVE update_pcs(_, _)
update_pcs(w, u) ==
    IF u > MaxObservers \/ w.crashed THEN w
    ELSE IF ~w.pcs[u].some \/ w.pcs[u].target = w.pcs[u].pos THEN update_pcs(w, u + 1)
    ELSE IF ~w.regions[region(w.pcs[u].pos)].live \/ ~w.regions[region(w.pcs[u].target)].live
    THEN Abort(w)
    ELSE update_pcs([w EXCEPT !.regions[region(w.pcs[u].pos)].dynamic_updates = TRUE,
                              !.regions[region(w.pcs[u].target)].dynamic_updates = TRUE,
                              !.pcs[u].pos = w.pcs[u].target],
                    u + 1)

\* The loop over the observers in ServerWorld::tick: updates is always empty, so
\* there is no GlobalUpdates message. The future of the send of GlobalSetup is
\* dropped without being awaited: the message never enters the channel.
global_messages(w) ==
    [w EXCEPT !.pending = [u \in Uuids |-> FALSE],
              !.lost = @ \/ \E u \in Uuids : w.pending[u]]

\* ServerWorld::tick of a world without NPCs.
tick(w, n) ==
    CHOOSE it \in {IF m.crashed THEN m
                   ELSE CHOOSE jt \in {IF f.suspended THEN f ELSE process(f, n) :
                                       f \in {flush(global_messages(m))}} : TRUE :
                   m \in {update_pcs(w, 1)}} : TRUE

\* ---------------------------------------------------------------- network
\* A 32-bit word of a stream is [hi, lo]: its top two bits and its low 30 bits.
LOW == 1073741824

Word(n) == [hi |-> (n \div LOW) % 4, lo |-> n % LOW]

\* The kind bits of a frame of the batched mode.
MASK_BI == [hi |-> 2, lo |-> 0]
MASK_UNI == [hi |-> 1, lo |-> 0]
MASK_DATAGRAM == [hi |-> 0, lo |-> 0]
\* The header and the terminator of a batched stream.
U32_MAX == [hi |-> 3, lo |-> LOW - 1]

Kinds == {"Bi", "Uni", "Datagram"}

\* The lengths of the messages the model sends.
Sizes == 1..(SizeLimit + 1)

\* a | b and a & b of two numbers of the given count of bits.
RECURSIVE OrBits(_, _, _)
OrBits(a, b, bits) ==
    IF bits = 0 THEN 0
    ELSE (IF (a % 2) + (b % 2) > 0 THEN 1 ELSE 0) + 2 * OrBits(a \div 2, b \div 2, bits - 1)

RECURSIVE AndBits(_, _, _)
AndBits(a, b, bits) ==
    IF bits = 0 THEN 0
    ELSE (IF (a % 2) + (b % 2) = 2 THEN 1 ELSE 0) + 2 * AndBits(a \div 2, b \div 2, bits - 1)

Or32(a, b) == [hi |-> OrBits(a.hi, b.hi, 2), lo |-> OrBits(a.lo, b.lo, 30)]
And32(a, b) == [hi |-> AndBits(a.hi, b.hi, 2), lo |-> AndBits(a.lo, b.lo, 30)]

\* RawConnection::send_all: the length word of the frame of a message.
FrameTag(kind, len) ==
    CASE kind = "Bi" -> Or32(Word(len), MASK_BI)
      [] kind = "Uni" -> Or32(Word(len), MASK_UNI)
      [] kind = "Datagram" -> Or32(Word(len), MASK_DATAGRAM)

\* bi_stream: tag & 0xc0000000 and (tag & 0x3fffffff) as usize.
tag_type(tag) == And32(tag, [hi |-> 3, lo |-> 0])
tag_size(tag) == And32(tag, [hi |-> 0, lo |-> LOW - 1]).lo

\* bi_stream: what the receiver takes a frame of the batched mode for.
FrameKind(tag) ==
    IF tag_type(tag) = Word(0) THEN "Bi"
    ELSE IF tag_type(tag) = [hi |-> 1, lo |-> 0] THEN "Uni"
    ELSE "Datagram"

\* A channel that hands out the newest message first.
mpsc_send_front(q, m) == <<m>> \o q

\* mpsc::Sender::send on a raw message channel; recv takes the head.
mpsc_send(q, m) == Append(q, m)

\* ---------------------------------------------------------------- interpolation
\* The N of InterpolationBuffer<Transform, 4>, the buffers of the server.
N == 4

Ticks == 0..MaxTick

Samples == {0, MaxSample}

\* Interpolate for f32 with t = num / den: a * (1.0 - t) + b * t, which is b
\* at t = 1 and a at t = 0; in between the result is rounded.
interpolate(a, b, num, den) == (a * (den - num) + b * num) \div den

\* InterpolationBuffer::new
InterpolationBufferNew(value, at) == [data |-> [i \in 0..(N - 1) |-> value], last |-> at]

\* self.last.saturating_sub(N - 1)
saturating_sub(a, b) == IF a >= b THEN a - b ELSE 0

\* InterpolationBuffer::insert_old
insert_old(b, x, y) ==
    IF x >= saturating_sub(b.last, N - 1) THEN [b EXCEPT !.data[x % N] = y] ELSE b

\* The loop of InterpolationBuffer::insert from tick i on.
RECURSIVE InsertLoop(_, _, _, _, _)
InsertLoop(b, i, x, last_y, y) ==
    IF i > x THEN b
    ELSE InsertLoop(insert_old(b, i, interpolate(last_y, y, i - b.last, x - b.last)),
                    i + 1, x, last_y, y)

\* InterpolationBuffer::insert
insert(b, x, y) ==
    [(IF x > b.last THEN InsertLoop(b, b.last + 1, x, b.data[b.last % N], y)
      ELSE insert_old(b, x, y)) EXCEPT !.last = x]

\* The number of times insert_old, called for tick x, runs self.data[x % N] = y.
insert_old_writes(b, x) == IF x >= saturating_sub(b.last, N - 1) THEN 1 ELSE 0

\* The number of writes of the loop of InterpolationBuffer::insert from tick i
\* on, and of the whole insert.
RECURSIVE WritesLoop(_, _, _)
WritesLoop(b, i, x) ==
    IF i > x THEN 0 ELSE insert_old_writes(b, i) + WritesLoop(b, i + 1, x)

insert_writes(b, x) ==
    IF x > b.last THEN WritesLoop(b, b.last + 1, x) ELSE insert_old_writes(b, x)

\* InterpolationBuffer::get at a whole tick x, where t = x - ix is 0.
get(b, x) ==
    IF x >= b.last THEN b.data[b.last % N]
    ELSE IF x >= saturating_sub(b.last, N - 1)
         THEN interpolate(b.data[x % N], b.data[(x + 1) % N], 0, 1)
         ELSE b.data[(b.last + 1) % N]

\* ---------------------------------------------------------------- frames
FRAMES_IN_FLIGHT == 2

Frames == 0..(MaxFrames - 1)

\* A submission that does not wait for the frame before it.
wait_semaphore_value_zero(count) == 0

\* RootFrame::render: wait_semaphore_values[1] and signal_semaphore_values[1]
wait_semaphore_value(count) == count

signal_semaphore_value(count) == count + 1

\* ---------------------------------------------------------------- struct of vectors
\* A PCVec is [player, slot, used, free]: the columns player and slot of the
\* PCs (sequences, index i of the code is element i + 1), the column used and
\* the vector of free indices.
PlayerIds == 0..(MaxPlayers - 1)

\* u32::MAX in a slot of a player: no PC is bound.
NoId == -1

PCVecNew == [player |-> <<>>, slot |-> <<>>, used |-> <<>>, free |-> <<>>]

\* PCVec::add: [vec, index], the vector afterwards and the index returned.
add(v, value) ==
    IF v.free = <<>>
    THEN [vec |-> [v EXCEPT !.player = Append(@, value.player), !.slot = Append(@, value.slot),
                            !.used = Append(@, 1)],
          index |-> Len(v.used)]
    ELSE [vec |-> [v EXCEPT !.player[v.free[Len(v.free)] + 1] = value.player,
                            !.slot[v.free[Len(v.free)] + 1] = value.slot,
                            !.free = SubSeq(@, 1, Len(@) - 1)],
          index |-> v.free[Len(v.free)]]

\* PCVec::free: assert_eq!(used[index], 1) fails or the index is freed.
free_panics(v, index) == v.used[index + 1] # 1

free(v, index) == [v EXCEPT !.used[index + 1] = 0, !.free = Append(@, index)]

\* ---------------------------------------------------------------- state
VARIABLES
    pages,      \* memory image of the mapped file, pages 1..: page number -> page
    header,     \* the Header in page 0 of the memory image: its two snapshot slots
    writable,   \* RawDatabase::writable, the set of writable page numbers
    state,      \* RawDatabase::allocator_state
    version,    \* RawDatabase::version
    file,       \* Database::file, the FileHeader of the root file
    vec,        \* the content object: the VecHeader of one database Vec
    syncing,    \* the synchronization thread is inside data.sync()
    inflight,   \* the image [pages, header] that data.sync() is writing out
    disk,       \* what the storage device holds: [pages, header]
    status,     \* "open", "panicked" (a panic unwound), "clobbered" (the header page
                \* was overwritten), "failed" (open returned Err)
    last,       \* name of the last operation
    ops,        \* history: vector operations since the last snapshot or open
    released,   \* history: pages of the last snapshot given back since that snapshot
    reused,     \* history: the last operation handed out a page that is in released
    snap,       \* history: the last snapshot taken: content, its pages, their bytes
    durable,    \* history: version and content of the last snapshot whose disk sync
                \* finished
    tree,       \* Tree::root of one Tree<K, V> of the database
    oracle,     \* history: the map the tree stands for, key -> value or None
    steps,      \* history: number of tree operations so far
    observers,  \* ServerWorld::observers by user: the GlobalObserver's center
    regions,    \* RegionManager::regions
    queue,      \* RegionManager::queue
    pcs,        \* TransientWorld::pcs
    saved,      \* persistent pcs.position by user
    recv,       \* history: what each user was sent about each region
    badStatic,  \* history: a static notification was sent out of order
    badDynamic, \* history: a dynamic notification was sent out of order
    crashed,    \* a panic ended the service task
    quiet,      \* history, by user: "out" never entered, "still" entered once and
                \* kept its center since, "moved" otherwise
    requests,   \* history: number of requests and disconnects handled
    pending,    \* GlobalObserver::pending by user
    chan,       \* by user: number of messages in the observer's notification channel
    slow,       \* by user: the client does not read, send_all takes nothing out
    suspended,  \* the actor waits in a send for room in a channel
    lost,       \* history: a setup notification was made and never sent
    outOfTier,  \* history: a change was applied while one of a higher tier was queued
    slots,      \* persistent players.slots by user and slot: a PC is bound to it
    closeCode,  \* by user: the code user.connection was closed with, 0 while open
    stopped,    \* the loop of run has ended
    final,      \* what the snapshot at the end of run holds of the persistent world
    log,        \* history: the messages sent over the connection: kind, size, mode
    channel,    \* the channel of Connection::channel: numbers of the queued messages
    sa,         \* the task of send_all: where it is, and the Bi message it waits for
    up,         \* the stream of the batched mode: frames written and not yet read
    down,       \* the same stream, other direction: replies written and not yet read
    bs,         \* the task of bi_stream on the stream of the batched mode
    streams,    \* by message sent on its own: where its stream is
    inbox,      \* the channel of the receiving application, with what it did
    outcome,    \* by message: what the ValueReceiver of a Bi message got
    replies,    \* history, by message: number of replies its ValueSender was given
    oversize,   \* history: a receiving task met a message above the size limit
    closed,     \* the connection is closed
    buffer,     \* an InterpolationBuffer: data and last
    given,      \* history: the value of the most recent insert
    inserts,    \* history: number of insert calls
    writes,     \* history: number of writes into the ring by the most recent insert
    pend,       \* Synchronizer: State::pending
    caller,     \* Synchronizer: where the thread that owns the database is
    thread,     \* Synchronizer: where the synchronization thread is
    calls,      \* history: number of calls of Synchronizer::sync
    syncs,      \* history: number of calls of data.sync()
    frame_count,      \* RootContext::frame_count
    semaphore,        \* the counter of the timeline semaphore RootContext::semaphore
    main_queue_fence, \* by frame slot: RootFrame::main_queue_fence is signaled
    phase,            \* by frame: how far the device is with its submission
    lookup,           \* the lookup cache of the VecGuard that is held
    entries,          \* three Entry values that are compared
    ordering,         \* what Entry::cmp returned for them
    pcvec,            \* World::pcs of the persistent world, a PCVec
    player_slots,     \* World::players.slots by player and slot: a PC id or NoId
    handed,           \* history: the indices add returned and free has not got since
    panicked          \* an assertion of the persistent world failed

storageVars ==
    <<pages, header, writable, state, version, file, vec, syncing, inflight, disk, status,
      last, ops, released, reused, snap, durable>>

treeVars == <<tree, oracle, steps>>

netVars ==
    <<log, channel, sa, up, down, bs, streams, inbox, outcome, replies, oversize, closed>>

bufferVars == <<buffer, given, inserts, writes>>

syncVars == <<pend, caller, thread, calls, syncs>>

frameVars == <<frame_count, semaphore, main_queue_fence, phase>>

pcVars == <<pcvec, player_slots, handed, panicked>>

guardVars == <<lookup>>

cmpVars == <<entries, ordering>>

restVars == <<bufferVars, syncVars, frameVars, pcVars, guardVars, cmpVars>>

regionVars ==
    <<observers, regions, queue, pcs, saved, recv, badStatic, badDynamic, crashed, quiet,
      requests, pending, chan, slow, suspended, lost, outOfTier, slots, closeCode,
      stopped, final, configuration>>

\* The machine a Lock call of the open database starts from.
Machine ==
    [pages |-> pages, writable |-> writable, state |-> state, append |-> <<>>,
     prepend |-> <<>>, ret |-> 0, panic |-> FALSE, oob |-> FALSE, clobber |-> FALSE,
     beyond |-> FALSE,
     committed |-> snap.pages, released |-> released, reused |-> FALSE]

\* How the database goes on after a call.
Outcome(r) ==
    IF r.panic THEN "panicked"
    ELSE IF r.clobber THEN "clobbered"
    ELSE IF r.beyond THEN "beyond"
    ELSE status

\* The database takes over what a Lock call left behind.
Commit(r) ==
    /\ ~r.oob
    /\ pages' = r.pages
    /\ writable' = r.writable
    /\ state' = r.state
    /\ released' = r.released
    /\ reused' = r.reused
    /\ status' = Outcome(r)

SnapshotOf(img, st) ==
    CHOOSE it \in {[content |-> ReadContent(img, st),
                    pages |-> ps,
                    image |-> [p \in ps |-> img[p]]]
                   : ps \in {SnapshotPages(img, st)}} : TRUE

\* Database::create with an empty Vec as content.
StorageInit ==
    /\ pages = [p \in PageNrs |-> ZeroPage]
    /\ header = HeaderNew
    /\ writable = {}
    /\ state = DefaultAllocatorState
    /\ version = 0
    /\ file = [root |-> NULL_PAGE_NR, len |-> 0]
    /\ vec = [root |-> NULL_PAGE_NR, len |-> 0]
    /\ syncing = FALSE
    /\ inflight = [pages |-> [p \in PageNrs |-> ZeroPage], header |-> HeaderNew]
    /\ disk = [pages |-> [p \in PageNrs |-> ZeroPage], header |-> HeaderNew]
    /\ status = "open"
    /\ last = "create"
    /\ ops = 0
    /\ released = {}
    /\ reused = FALSE
    /\ snap = [content |-> [ok |-> TRUE, elems |-> <<>>], pages |-> {}, image |-> <<>>]
    /\ durable = [version |-> 0, content |-> [ok |-> TRUE, elems |-> <<>>]]

\* vec.write().push(value)
VecPush(value) ==
    /\ UNCHANGED <<treeVars, regionVars, netVars, restVars>>
    /\ status = "open"
    /\ ops < MaxOps
    /\ vec.len < MaxLen
    /\ ops' = ops + 1
    /\ \E r \in {push(Machine, vec, value)} :
           /\ Commit(r)
           /\ vec' = IF Stop(r) THEN vec ELSE r.ret
    /\ last' = "write"
    /\ UNCHANGED <<header, version, file, syncing, inflight, disk, snap, durable>>

\* vec.write().pop()
VecPop ==
    /\ UNCHANGED <<treeVars, regionVars, netVars, restVars>>
    /\ status = "open"
    /\ ops < MaxOps
    /\ vec.len > 0
    /\ ops' = ops + 1
    /\ \E r \in {pop(Machine, vec)} :
           /\ Commit(r)
           /\ vec' = IF Stop(r) THEN vec ELSE r.ret
    /\ last' = "write"
    /\ UNCHANGED <<header, version, file, syncing, inflight, disk, snap, durable>>

\* vec.write()[index] = value
VecStore(index, value) ==
    /\ UNCHANGED <<treeVars, regionVars, netVars, restVars>>
    /\ status = "open"
    /\ ops < MaxOps
    /\ index < vec.len
    /\ ops' = ops + 1
    /\ \E r \in {vec_store(Machine, vec, index, value)} :
           /\ Commit(r)
           /\ vec' = IF Stop(r) THEN vec ELSE r.ret
    /\ last' = "write"
    /\ UNCHANGED <<header, version, file, syncing, inflight, disk, snap, durable>>

\* Database::snapshot, up to and including the barrier of Synchronizer::sync:
\* the call returns once the synchronization thread has left its previous sync.
Snapshot ==
    /\ UNCHANGED <<treeVars, regionVars, netVars, restVars>>
    /\ status = "open"
    /\ version < MaxVersion
    /\ ~syncing
    /\ \E w \in {serialize(Machine, file, vec)} :
       \E r \in {IF Stop(w) THEN w ELSE set_len(w, w.ret, 12)} :
       LET st == [version |-> version + 1, allocator |-> swap(r.state),
                  root_nr |-> r.ret.root, root_len |-> r.ret.len]
       IN  /\ ~r.oob
           /\ pages' = r.pages
           /\ reused' = r.reused
           /\ IF Stop(r)
              THEN /\ status' = Outcome(r)
                   /\ writable' = r.writable
                   /\ state' = r.state
                   /\ released' = r.released
                   /\ UNCHANGED <<header, version, file, syncing, inflight, snap, ops>>
              ELSE /\ status' = status
                   /\ file' = r.ret
                   /\ state' = st.allocator
                   /\ version' = st.version
                   /\ header' = header_snapshot(header, st)
                   /\ writable' = {}
                   /\ syncing' = TRUE
                   /\ inflight' = [pages |-> r.pages, header |-> header_snapshot(header, st)]
                   /\ released' = {}
                   /\ ops' = 0
                   /\ snap' = [SnapshotOf(r.pages, st) EXCEPT !.content = ReadVec(pages, vec)]
    /\ last' = "snapshot"
    /\ UNCHANGED <<vec, disk, durable>>

\* The synchronization thread: data.sync() returns and the thread is back at
\* the barrier. The device now holds what the mapping held when the sync began;
\* what was written to the mapping since then is not yet on the device.
SyncDone ==
    /\ UNCHANGED <<treeVars, regionVars, netVars, restVars>>
    /\ syncing
    /\ syncing' = FALSE
    /\ disk' = inflight
    /\ durable' = [version |-> inflight.header[(version % 2) + 1].state.version,
                   content |-> snap.content]
    /\ UNCHANGED <<inflight, pages, header, writable, state, version, file, vec, status, last,
                   ops, released, reused, snap>>

\* Database::open on the page image img with header page h.
Open(img, h) ==
    LET s == last_snapshot(h)
        fh == [root |-> s.state.root_nr, len |-> s.state.root_len]
        vh == deserialize(img, fh)
    IN  /\ pages' = img
        /\ header' = h
        /\ writable' = {}
        /\ ops' = 0
        /\ released' = {}
        /\ reused' = FALSE
        /\ syncing' = FALSE
        /\ IF s.some /\ vh.some
           THEN /\ status' = "open"
                /\ state' = s.state.allocator
                /\ version' = s.state.version
                /\ file' = fh
                /\ vec' = [root |-> vh.root, len |-> vh.len]
           ELSE /\ status' = "failed"
                /\ UNCHANGED <<state, version, file, vec>>

\* The database is dropped (the drop of the Synchronizer waits for the thread)
\* and the file is opened again: the file holds what the mapping held.
Reopen ==
    /\ UNCHANGED <<treeVars, regionVars, netVars, restVars>>
    /\ status = "open"
    /\ ~syncing
    /\ Open(pages, header)
    /\ last' = "reopen"
    /\ UNCHANGED <<inflight, disk, snap, durable>>

\* Pages of the mapping whose bytes differ from what the device holds.
Dirty == {p \in PageNrs : pages[p] # disk.pages[p]}

\* Header pages the device may hold after a power loss: the old one, the new
\* one, or the new one with a slot that was only partly written (its state
\* arrived, its checksum did not).
CrashHeaders ==
    {disk.header, header}
    \cup {[disk.header EXCEPT ![k] = [state |-> header[k].state,
                                      checksum |-> disk.header[k].checksum]] : k \in 1..2}

\* Power loss and restart: of the page writes made since the last finished
\* sync, the set written reached the device; the file is then opened.
Crash(written, h) ==
    /\ UNCHANGED <<treeVars, regionVars, netVars, restVars>>
    /\ status = "open"
    /\ written \subseteq Dirty
    /\ LET img == [p \in PageNrs |-> IF p \in written THEN pages[p] ELSE disk.pages[p]]
       IN  /\ Open(img, h)
           /\ disk' = [pages |-> img, header |-> h]
           /\ inflight' = [pages |-> img, header |-> h]
    /\ last' = "crash"
    /\ UNCHANGED <<snap, durable>>

\* What slot k of the header page may hold after damage to the page: what it
\* held, a slot whose checksum belongs to other content, a slot of the next
\* version with its own checksum, or a copy of the other slot.
DamagedSlots(k) ==
    {header[k],
     [state |-> header[k].state, checksum |-> header[3 - k].checksum],
     SnapshotNew([header[k].state EXCEPT !.version = @ + 1]),
     header[3 - k]}

\* The database is dropped, the header page of the file is damaged and the
\* file is opened again.
OpenDamaged(h) ==
    /\ UNCHANGED <<treeVars, regionVars, netVars, restVars>>
    /\ status = "open"
    /\ ~syncing
    /\ Open(pages, h)
    /\ last' = "damaged"
    /\ UNCHANGED <<inflight, disk, snap, durable>>

\* The database is dropped, the file is cut at the start of page t and opened
\* again. MappedFile::raw extends the file again when a page past its end is
\* read (Pager::page, grow), so the pages from t on read as zeros.
Truncate(t) ==
    /\ UNCHANGED <<treeVars, regionVars, netVars, restVars>>
    /\ status = "open"
    /\ ~syncing
    /\ t >= 1
    /\ Open([p \in PageNrs |-> IF p >= t THEN ZeroPage ELSE pages[p]], header)
    /\ last' = "truncated"
    /\ UNCHANGED <<inflight, disk, snap, durable>>

StorageNext ==
    \/ \E value \in Values : VecPush(value)
    \/ VecPop
    \/ \E index \in 0..(MaxLen - 1), value \in Values : VecStore(index, value)
    \/ Snapshot
    \/ SyncDone
    \/ Reopen

\* Vec::write: a guard with lookup PageLookup::Invalid. A guard that has not
\* been used is as good as none.
GuardInit == lookup = Invalid

\* What an operation on the guard leaves behind.
GuardCommit(g) ==
    /\ UNCHANGED <<treeVars, regionVars, netVars>>
    /\ UNCHANGED <<bufferVars, syncVars, frameVars, pcVars, cmpVars>>
    /\ status = "open"
    /\ ops < MaxGuardOps
    /\ ops' = ops + 1
    /\ Commit(g.m)
    /\ lookup' = g.lookup
    /\ last' = "write"
    /\ UNCHANGED <<header, version, file, syncing, inflight, disk, snap, durable>>

\* guard.push(value) on the guard that is held
GuardPush(value) ==
    /\ vec.len < MaxLen
    /\ \E g \in {guard_push(Machine, lookup, vec, value)} :
           /\ GuardCommit(g)
           /\ vec' = IF Stop(g.m) THEN vec ELSE g.m.ret

\* guard.pop()
GuardPop ==
    /\ vec.len > 0
    /\ \E g \in {guard_pop(Machine, lookup, vec)} :
           /\ GuardCommit(g)
           /\ vec' = IF Stop(g.m) THEN vec ELSE g.m.ret

\* guard[index] = value
GuardStore(index, value) ==
    /\ index < vec.len
    /\ \E g \in {guard_store(Machine, lookup, vec, index, value)} :
           /\ GuardCommit(g)
           /\ vec' = IF Stop(g.m) THEN vec ELSE g.m.ret

\* guard[index]
GuardIndex(index) ==
    /\ index < vec.len
    /\ \E g \in {guard_index(Machine, lookup, vec, index)} : GuardCommit(g)
    /\ UNCHANGED vec

\* The guard is dropped and Vec::write gives a new one.
GuardNew ==
    /\ UNCHANGED <<storageVars, treeVars, regionVars, netVars>>
    /\ UNCHANGED <<bufferVars, syncVars, frameVars, pcVars, cmpVars>>
    /\ lookup # Invalid
    /\ lookup' = Invalid

\* Database::snapshot borrows the database mutably: no guard is in use.
GuardSnapshot == lookup = Invalid /\ Snapshot

GuardNext ==
    \/ \E value \in Values : GuardPush(value)
    \/ GuardPop
    \/ \E index \in 0..(MaxLen - 1), value \in Values : GuardStore(index, value)
    \/ \E index \in 0..(MaxLen - 1) : GuardIndex(index)
    \/ GuardNew
    \/ GuardSnapshot
    \/ SyncDone

\* ---------------------------------------------------------------- tree
\* Tree::new
TreeInit ==
    /\ tree = NULL_PAGE_NR
    /\ oracle = [k \in Keys |-> None]
    /\ steps = 0

\* tree.write().insert(key, value)
TreeInsert(key, value) ==
    /\ UNCHANGED <<regionVars, netVars, restVars>>
    /\ status = "open"
    /\ steps < MaxTreeOps
    /\ steps' = steps + 1
    /\ \E r \in {tree_insert(Machine, tree, key, value)} :
           /\ Commit(r)
           /\ tree' = IF Stop(r) THEN tree ELSE r.ret
    /\ oracle' = [oracle EXCEPT ![key] = value]
    /\ last' = "insert"
    /\ UNCHANGED <<header, version, file, vec, syncing, inflight, disk, ops, snap, durable>>

\* tree.write().remove(key)
TreeRemove(key) ==
    /\ UNCHANGED <<regionVars, netVars, restVars>>
    /\ status = "open"
    /\ steps < MaxTreeOps
    /\ steps' = steps + 1
    /\ \E r \in {tree_remove(Machine, tree, key)} :
           /\ Commit(r)
           /\ tree' = IF Stop(r) THEN tree ELSE r.ret
    /\ oracle' = [oracle EXCEPT ![key] = None]
    /\ last' = "remove"
    /\ UNCHANGED <<header, version, file, vec, syncing, inflight, disk, ops, snap, durable>>

\* The tree operations of a database whose snapshots are taken in between.
TreeNext ==
    \/ \E key \in Keys, value \in Values : TreeInsert(key, value)
    \/ \E key \in Keys : TreeRemove(key)
    \/ Snapshot /\ version' <= MaxTreeVersion
    \/ SyncDone

\* ---------------------------------------------------------------- server
\* The record the region manager's operators work on.
World ==
    [regions |-> regions, queue |-> queue, pcs |-> pcs, recv |-> recv,
     badStatic |-> badStatic, badDynamic |-> badDynamic, crashed |-> crashed,
     pending |-> pending, chan |-> chan, slow |-> slow, suspended |-> suspended, lost |-> lost,
     outOfTier |-> outOfTier]

\* The server goes on with what a handler left behind.
Install(w) ==
    /\ regions' = w.regions
    /\ queue' = w.queue
    /\ pcs' = w.pcs
    /\ recv' = w.recv
    /\ badStatic' = w.badStatic
    /\ badDynamic' = w.badDynamic
    /\ crashed' = w.crashed
    /\ pending' = w.pending
    /\ chan' = w.chan
    /\ suspended' = w.suspended
    /\ lost' = w.lost
    /\ outOfTier' = w.outOfTier

\* Request::Create: a new PC is at the middle of the world.
Spawn ==
    [x |-> (configuration.size * REGION_SIZE + 1) \div 2,
     z |-> (configuration.size * REGION_SIZE + 1) \div 2]

\* No snapshot was taken.
NoSnapshot == [saved |-> <<>>, slots |-> <<>>]

\* ServerWorld::new on a world in which the PC of every user u is at sv[u]; the
\* client of user u reads its notifications unless sl[u].
RegionStart(sv, sl) ==
    /\ observers = [u \in Uuids |-> [some |-> FALSE, center |-> NoPosition]]
    /\ regions = [p \in RegionPoss |-> DefaultRegion]
    /\ queue = <<>>
    /\ pcs = [u \in Uuids |-> NoPC]
    /\ saved = sv
    /\ recv = [u \in Uuids |-> [p \in RegionPoss |->
                                   [static |-> FALSE, dynamic |-> FALSE, ns |-> 0, nd |-> 0]]]
    /\ badStatic = FALSE
    /\ badDynamic = FALSE
    /\ crashed = FALSE
    /\ quiet = [u \in Uuids |-> "out"]
    /\ requests = 0
    /\ pending = [u \in Uuids |-> FALSE]
    /\ chan = [u \in Uuids |-> 0]
    /\ slow = sl
    /\ suspended = FALSE
    /\ lost = FALSE
    /\ outOfTier = FALSE
    /\ slots = [u \in Users |-> [slot \in 0..(SLOT_COUNT - 1) |-> TRUE]]
    /\ closeCode = [u \in Users |-> 0]
    /\ stopped = FALSE
    /\ final = NoSnapshot

\* The world of WorldSize x WorldSize regions.
SmallWorld ==
    configuration = [size |-> WorldSize, static_distance |-> StaticDistance,
                     full_distance |-> FullDistance]

\* The longest queue a request may leave behind: MaxQueue in the small world.
QueueBound == IF configuration.size = WorldSize THEN MaxQueue ELSE MaxAtlasQueue

\* A world of AtlasSize x AtlasSize regions with the same distances.
LargeWorld ==
    configuration = [size |-> AtlasSize, static_distance |-> StaticDistance,
                     full_distance |-> FullDistance]

\* Every user has a new PC.
RegionInit == SmallWorld /\ RegionStart([u \in Uuids |-> Spawn], [u \in Uuids |-> FALSE])

\* Request::Enter with GlobalObserver::new
Enter(u) ==
    /\ UNCHANGED <<storageVars, treeVars, netVars, restVars, configuration>>
    /\ ~crashed /\ ~suspended /\ ~stopped
    /\ requests < MaxRequests
    /\ requests' = requests + 1
    /\ UNCHANGED <<stopped, final>>
    /\ ~observers[u].some
    /\ \E center \in {region(saved[u])} :
       \E q \in {enqueue(UpdateLoop(queue, iterator(center), 1, center, u, NoPosition, center),
                         center, center, u, "SetupPlayer", saved[u])} :
           /\ Len(q) <= QueueBound
           /\ queue' = q
           /\ observers' = [observers EXCEPT ![u] = [some |-> TRUE, center |-> center]]
    /\ quiet' = [quiet EXCEPT ![u] = IF @ = "out" THEN "still" ELSE "moved"]
    /\ pending' = [pending EXCEPT ![u] = TRUE]
    /\ chan' = [chan EXCEPT ![u] = IF slow[u] THEN 1 ELSE 0]
    /\ UNCHANGED <<regions, pcs, saved, recv, badStatic, badDynamic, crashed, slow, suspended, lost, outOfTier>>
    /\ UNCHANGED <<slots, closeCode>>

\* GlobalObserver::update: the queue afterwards.
ObserverUpdate(q, u, center, new_center) ==
    UpdateLoop(UpdateLoop(q, iterator(new_center), 1, new_center, u, center, new_center),
               SelectSeq(iterator(center), LAMBDA p : level(distance(p, new_center)) = "none"),
               1, center, u, center, NoPosition)

\* Request::UpdateSelf with GlobalObserver::update
UpdateSelf(u, pos) ==
    /\ UNCHANGED <<storageVars, treeVars, netVars, restVars, configuration>>
    /\ ~crashed /\ ~suspended /\ ~stopped
    /\ requests < MaxRequests
    /\ requests' = requests + 1
    /\ UNCHANGED <<stopped, final>>
    /\ observers[u].some
    /\ pcs' = IF pcs[u].some THEN [pcs EXCEPT ![u].target = pos] ELSE pcs
    /\ IF near_region(pos, observers[u].center)
       THEN UNCHANGED <<queue, observers, quiet>>
       ELSE /\ \E q \in {ObserverUpdate(queue, u, observers[u].center, region(pos))} :
                  /\ Len(q) <= QueueBound
                  /\ queue' = q
            /\ observers' = [observers EXCEPT ![u].center = region(pos)]
            /\ quiet' = [quiet EXCEPT ![u] = "moved"]
    /\ UNCHANGED <<regions, saved, recv, badStatic, badDynamic, crashed>>
    /\ UNCHANGED <<pending, chan, slow, suspended, lost, outOfTier, slots, closeCode>>

\* GlobalObserver::remove of the observer that was taken out of world.observers.
Remove(u) ==
    /\ UNCHANGED <<storageVars, treeVars, netVars, restVars, configuration>>
    /\ ~crashed /\ ~suspended /\ ~stopped
    /\ requests < MaxRequests
    /\ requests' = requests + 1
    /\ UNCHANGED <<stopped, final>>
    /\ observers[u].some
    /\ observers' = [observers EXCEPT ![u] = [some |-> FALSE, center |-> NoPosition]]
    /\ quiet' = [quiet EXCEPT ![u] = "moved"]
    /\ pending' = [pending EXCEPT ![u] = FALSE]
    /\ UNCHANGED <<chan, slow, suspended, lost, outOfTier, slots, closeCode>>
    /\ IF ~pcs[u].some
       THEN /\ crashed' = TRUE
            /\ UNCHANGED <<regions, queue, pcs, saved, recv, badStatic, badDynamic>>
       ELSE /\ \E q \in {UpdateLoop(queue, iterator(observers[u].center), 1, observers[u].center,
                                    u, observers[u].center, NoPosition)} :
                  /\ Len(q) <= QueueBound
                  /\ queue' = q
            /\ pcs' = [pcs EXCEPT ![u] = NoPC]
            /\ saved' = [saved EXCEPT ![u] = pcs[u].pos]
            /\ regions' = IF regions[region(pcs[u].pos)].live
                          THEN [regions EXCEPT ![region(pcs[u].pos)].dynamic_updates = TRUE]
                          ELSE regions
            /\ UNCHANGED <<recv, badStatic, badDynamic, crashed>>

\* Request::Exit
Exit(u) == Remove(u)

\* Action::Disconnected
Disconnected(u) == Remove(u)

\* Action::Tick with ServerWorld::tick; the timeout of process ends its loop
\* after n entries, at least one.
Tick(n) ==
    /\ UNCHANGED <<storageVars, treeVars, netVars, restVars, configuration>>
    /\ ~crashed /\ ~suspended /\ ~stopped
    /\ n >= Min(1, Len(queue))
    /\ Install(tick(World, n))
    /\ UNCHANGED <<observers, saved, quiet, requests, slow, slots, closeCode, stopped, final>>

\* world.observers holds an observer of the user.
InGame(u) == u \in Uuids /\ observers[u].some

\* Action::Request when handle_request returns Err(error): run closes the
\* connection of the user the request came from.
Reject(u, error) ==
    /\ UNCHANGED <<storageVars, treeVars, netVars, restVars, configuration>>
    /\ requests' = requests + 1
    /\ UNCHANGED <<stopped, final>>
    /\ closeCode' = [closeCode EXCEPT ![u] = code(error)]
    /\ UNCHANGED <<observers, regions, queue, pcs, saved, recv, badStatic, badDynamic, crashed,
                   quiet, pending, chan, slow, suspended, lost, outOfTier, slots>>

\* Action::Request with Request::Create and World::spawn_pc. Of the PCs the
\* request actions keep whether a slot is bound; the vectors behind the slots
\* (pcs.add, pcs.free) are the matter of SpawnPc and DeletePc.
RequestCreate(u, slot) ==
    /\ ~crashed /\ ~suspended /\ ~stopped
    /\ requests < MaxRequests
    /\ closeCode[u] = 0
    /\ IF ~validate_slot(slot) THEN Reject(u, "IllegalSlot")
       ELSE IF slots[u][slot] THEN Reject(u, "SlotAlreadyBound")
       ELSE /\ UNCHANGED <<storageVars, treeVars, netVars, restVars, configuration>>
            /\ requests' = requests + 1
            /\ UNCHANGED <<stopped, final>>
            /\ slots' = [slots EXCEPT ![u][slot] = TRUE]
            /\ saved' = IF u \in Uuids THEN [saved EXCEPT ![u] = Spawn] ELSE saved
            /\ UNCHANGED <<observers, regions, queue, pcs, recv, badStatic, badDynamic, crashed,
                           quiet, pending, chan, slow, suspended, lost, outOfTier, closeCode>>

\* Action::Request with Request::Delete and World::delete_pc
RequestDelete(u, slot) ==
    /\ ~crashed /\ ~suspended /\ ~stopped
    /\ requests < MaxRequests
    /\ closeCode[u] = 0
    /\ IF ~validate_slot(slot) THEN Reject(u, "IllegalSlot")
       ELSE /\ UNCHANGED <<storageVars, treeVars, netVars, restVars, configuration>>
            /\ requests' = requests + 1
            /\ UNCHANGED <<stopped, final>>
            /\ slots' = [slots EXCEPT ![u][slot] = FALSE]
            /\ UNCHANGED <<observers, regions, queue, pcs, saved, recv, badStatic, badDynamic,
                           crashed, quiet, pending, chan, slow, suspended, lost, outOfTier,
                           closeCode>>

\* Action::Request with Request::Enter; only the users of Uuids get an observer.
RequestEnter(u, slot) ==
    /\ ~crashed /\ ~suspended /\ ~stopped
    /\ requests < MaxRequests
    /\ closeCode[u] = 0
    /\ IF ~validate_slot(slot) THEN Reject(u, "IllegalSlot")
       ELSE IF InGame(u) THEN Reject(u, "AlreadyInGame")
       ELSE IF ~slots[u][slot] THEN Reject(u, "SlotNotBound")
       ELSE u \in Uuids /\ Enter(u)

\* Action::Request with Request::Exit
RequestExit(u) ==
    /\ ~crashed /\ ~suspended /\ ~stopped
    /\ requests < MaxRequests
    /\ closeCode[u] = 0
    /\ IF InGame(u) THEN Exit(u) ELSE Reject(u, "NotInGame")

\* Action::Request with Request::UpdateSelf
RequestUpdateSelf(u, pos) ==
    /\ ~crashed /\ ~suspended /\ ~stopped
    /\ requests < MaxRequests
    /\ closeCode[u] = 0
    /\ IF InGame(u) THEN UpdateSelf(u, pos) ELSE Reject(u, "NotInGame")

RegionNext ==
    \/ \E u \in Uuids : Enter(u)
    \/ \E u \in Uuids, pos \in Positions : UpdateSelf(u, pos)
    \/ \E u \in Uuids : Exit(u)
    \/ \E u \in Uuids : Disconnected(u)
    \/ \E n \in 0..Len(queue) : Tick(n)

\* The positions the clients of the large world report: the middle of the
\* region (1, 1) and the middle of the region (AtlasSize - 2, AtlasSize - 2).
AtlasPositions ==
    {[x |-> REGION_SIZE * r + REGION_SIZE \div 2, z |-> REGION_SIZE * r + REGION_SIZE \div 2]
        : r \in {1, AtlasSize - 2}}

AtlasNext ==
    \/ \E u \in Uuids : Enter(u)
    \/ \E u \in Uuids, pos \in AtlasPositions : UpdateSelf(u, pos)
    \/ \E u \in Uuids : Exit(u)
    \/ \E n \in 0..Min(Len(queue), MaxAtlasTick) : Tick(n)

\* The persistent world: the positions of the PCs and the slots of the players.
Persistent == [saved |-> saved, slots |-> slots]

\* An end of run that takes no snapshot.
StopNoSnapshot ==
    /\ UNCHANGED <<storageVars, treeVars, netVars, restVars, configuration>>
    /\ ~crashed /\ ~suspended /\ ~stopped
    /\ stopped' = TRUE
    /\ UNCHANGED <<observers, regions, queue, pcs, saved, recv, badStatic, badDynamic, crashed,
                   quiet, requests, pending, chan, slow, suspended, lost, outOfTier, slots,
                   closeCode, final>>

\* The end of run: the loop is left and world.snapshot() is called.
Shutdown ==
    /\ UNCHANGED <<storageVars, treeVars, netVars, restVars, configuration>>
    /\ ~crashed /\ ~suspended /\ ~stopped
    /\ stopped' = TRUE
    /\ final' = Persistent
    /\ UNCHANGED <<observers, regions, queue, pcs, saved, recv, badStatic, badDynamic, crashed,
                   quiet, requests, pending, chan, slow, suspended, lost, outOfTier, slots,
                   closeCode>>

\* Action::Stop, sent by Server::stop
StopReceived == Shutdown

\* actions.recv() returns None: every sender of the mailbox was dropped.
MailboxClosed == Shutdown

\* The actions of the service task with every request a connected user can
\* send, the ones that handle_request rejects included.
RequestNext ==
    \/ \E u \in Users, slot \in SlotInputs : RequestCreate(u, slot)
    \/ \E u \in Users, slot \in SlotInputs : RequestDelete(u, slot)
    \/ \E u \in Users, slot \in SlotInputs : RequestEnter(u, slot)
    \/ \E u \in Users : RequestExit(u)
    \/ \E u \in Users, pos \in Positions : RequestUpdateSelf(u, pos)
    \/ \E u \in Uuids : Disconnected(u)
    \/ \E n \in 0..Len(queue) : Tick(n)

\* The service task until its loop ends.
ServiceNext ==
    \/ RequestNext
    \/ StopReceived
    \/ MailboxClosed

\* ---------------------------------------------------------------- connection
\* One connection between a sending and a receiving endpoint. A message is
\* known by its number in log.
Ids == 1..MaxMessages

Failed(task) == task.pc = "failed"

NetInit ==
    /\ log = <<>>
    /\ channel = <<>>
    /\ sa = [pc |-> "recv", cur |-> 0]
    /\ up = <<>>
    /\ down = <<>>
    /\ bs = [pc |-> "read", cur |-> 0]
    /\ streams = [id \in Ids |-> "none"]
    /\ inbox = <<>>
    /\ outcome = [id \in Ids |-> "none"]
    /\ replies = [id \in Ids |-> 0]
    /\ oversize = FALSE
    /\ closed = FALSE

\* The requests whose ValueSender is dropped with the messages of the channel.
DropChannel(oc, ids) ==
    [id \in Ids |-> IF id \in ids /\ oc[id] = "pending" THEN "error" ELSE oc[id]]

\* MessageSender::send on the sender of Connection::channel. When send_all has
\* returned, the receiver of the channel is gone and the message comes back.
ChannelSend(kind, size) ==
    /\ UNCHANGED <<storageVars, treeVars, regionVars, restVars>>
    /\ ~closed
    /\ Len(log) < MaxMessages
    /\ log' = Append(log, [kind |-> kind, size |-> size, mode |-> "batch"])
    /\ IF Failed(sa)
       THEN /\ outcome' = [outcome EXCEPT ![Len(log) + 1] = IF kind = "Bi" THEN "error" ELSE "none"]
            /\ UNCHANGED channel
       ELSE /\ outcome' = [outcome EXCEPT ![Len(log) + 1] = IF kind = "Bi" THEN "pending" ELSE "none"]
            /\ channel' = mpsc_send(channel, Len(log) + 1)
    /\ UNCHANGED <<sa, up, down, bs, streams, inbox, replies, oversize, closed>>

\* RawConnection::send_all: one message is taken from the channel and its frame
\* is written. The write fails when the receiving task has dropped the stream.
SendAllWrite ==
    /\ UNCHANGED <<storageVars, treeVars, regionVars, restVars>>
    /\ ~closed
    /\ sa.pc = "recv"
    /\ channel # <<>>
    /\ IF Failed(bs)
       THEN /\ sa' = [pc |-> "failed", cur |-> 0]
            /\ channel' = <<>>
            /\ outcome' = DropChannel(outcome, {channel[i] : i \in DOMAIN channel})
            /\ UNCHANGED up
       ELSE /\ \E id \in {Head(channel)} :
                  /\ up' = Append(up, [tag |-> FrameTag(log[id].kind, log[id].size), body |-> id])
                  /\ sa' = IF log[id].kind = "Bi" THEN [pc |-> "reply", cur |-> id] ELSE sa
            /\ channel' = Tail(channel)
            /\ UNCHANGED outcome
    /\ UNCHANGED <<log, down, bs, streams, inbox, replies, oversize, closed>>

\* RawConnection::send_all: the reply of a Bi message is read from the stream
\* and handed to the ValueSender of the message.
SendAllRead ==
    /\ UNCHANGED <<storageVars, treeVars, regionVars, restVars>>
    /\ ~closed
    /\ sa.pc = "reply"
    /\ down # <<>>
    /\ down' = Tail(down)
    /\ IF Head(down).size > SizeLimit
       THEN /\ sa' = [pc |-> "failed", cur |-> 0]
            /\ channel' = <<>>
            /\ outcome' = DropChannel(outcome, {sa.cur} \cup {channel[i] : i \in DOMAIN channel})
            /\ UNCHANGED replies
       ELSE /\ sa' = [pc |-> "recv", cur |-> 0]
            /\ outcome' = [outcome EXCEPT ![sa.cur] = "reply"]
            /\ replies' = [replies EXCEPT ![sa.cur] = @ + 1]
            /\ UNCHANGED channel
    /\ UNCHANGED <<log, up, bs, streams, inbox, oversize, closed>>

\* RawConnection::send_all: the read of the reply fails because the receiving
\* task has dropped the stream.
SendAllReset ==
    /\ UNCHANGED <<storageVars, treeVars, regionVars, restVars>>
    /\ ~closed
    /\ sa.pc = "reply"
    /\ down = <<>>
    /\ Failed(bs)
    /\ sa' = [pc |-> "failed", cur |-> 0]
    /\ channel' = <<>>
    /\ outcome' = DropChannel(outcome, {sa.cur} \cup {channel[i] : i \in DOMAIN channel})
    /\ UNCHANGED <<log, up, down, bs, streams, inbox, replies, oversize, closed>>

\* bi_stream on the stream of the batched mode: one round of its loop up to
\* the handing over of the message to the application.
BiStreamRead ==
    /\ UNCHANGED <<storageVars, treeVars, regionVars, restVars>>
    /\ ~closed
    /\ bs.pc = "read"
    /\ up # <<>>
    /\ up' = Tail(up)
    /\ \E f \in {Head(up)} :
          IF f.tag = U32_MAX
          THEN /\ bs' = [pc |-> "done", cur |-> 0]
               /\ UNCHANGED <<inbox, oversize>>
          ELSE IF tag_size(f.tag) > SizeLimit
          THEN /\ bs' = [pc |-> "failed", cur |-> 0]
               /\ oversize' = TRUE
               /\ UNCHANGED inbox
          ELSE /\ \E kind \in {FrameKind(f.tag)} :
                     /\ inbox' = mpsc_send(inbox, [id |-> f.body, kind |-> kind,
                                                   reply |-> IF kind = "Bi" THEN "waiting" ELSE "none"])
                     /\ bs' = IF kind = "Bi" THEN [pc |-> "app", cur |-> f.body] ELSE bs
               /\ UNCHANGED oversize
    /\ UNCHANGED <<log, channel, sa, down, streams, outcome, replies, closed>>

\* The entry of the inbox for message id.
Delivered(id) == CHOOSE i \in DOMAIN inbox : inbox[i].id = id

\* The application answers a Bi message it received (ValueSender::send) or
\* drops the ValueSender.
AppReply(i, answer) ==
    /\ UNCHANGED <<storageVars, treeVars, regionVars, restVars>>
    /\ ~closed
    /\ i \in DOMAIN inbox
    /\ inbox[i].reply = "waiting"
    /\ inbox' = [inbox EXCEPT ![i].reply = IF answer THEN "sent" ELSE "dropped"]
    /\ UNCHANGED <<log, channel, sa, up, down, bs, streams, outcome, replies, oversize, closed>>

\* bi_stream on the stream of the batched mode: the reply of the application
\* is written back with its length.
BiStreamReply ==
    /\ UNCHANGED <<storageVars, treeVars, regionVars, restVars>>
    /\ ~closed
    /\ bs.pc = "app"
    /\ inbox[Delivered(bs.cur)].reply \in {"sent", "dropped"}
    /\ IF inbox[Delivered(bs.cur)].reply = "sent"
       THEN /\ down' = Append(down, [size |-> 1, re |-> bs.cur])
            /\ bs' = [pc |-> "read", cur |-> 0]
       ELSE /\ bs' = [pc |-> "failed", cur |-> 0]
            /\ UNCHANGED down
    /\ UNCHANGED <<log, channel, sa, up, streams, inbox, outcome, replies, oversize, closed>>

\* Connection::send or spawn_send: RawConnection::send up to the end of its
\* writes, on a stream of its own (or as a datagram).
SingleSend(kind, size) ==
    /\ UNCHANGED <<storageVars, treeVars, regionVars, restVars>>
    /\ ~closed
    /\ Len(log) < MaxMessages
    /\ log' = Append(log, [kind |-> kind, size |-> size, mode |-> "single"])
    /\ streams' = [streams EXCEPT ![Len(log) + 1] = "wire"]
    /\ outcome' = [outcome EXCEPT ![Len(log) + 1] = IF kind = "Bi" THEN "pending" ELSE "none"]
    /\ UNCHANGED <<channel, sa, up, down, bs, inbox, replies, oversize, closed>>

\* The task that incoming spawns for a stream or a datagram: bi_stream (whose
\* first word is the 0 that RawConnection::send wrote), uni_stream, datagrams.
SingleRecv(id) ==
    /\ UNCHANGED <<storageVars, treeVars, regionVars, restVars>>
    /\ ~closed
    /\ streams[id] = "wire"
    /\ IF log[id].kind = "Datagram"
       THEN /\ inbox' = mpsc_send(inbox, [id |-> id, kind |-> "Datagram", reply |-> "none"])
            /\ streams' = [streams EXCEPT ![id] = "done"]
            /\ UNCHANGED oversize
       ELSE IF log[id].size > SizeLimit
       THEN /\ oversize' = TRUE
            /\ streams' = [streams EXCEPT ![id] = IF log[id].kind = "Bi" THEN "reset" ELSE "done"]
            /\ UNCHANGED inbox
       ELSE IF log[id].kind = "Uni"
       THEN /\ inbox' = mpsc_send(inbox, [id |-> id, kind |-> "Uni", reply |-> "none"])
            /\ streams' = [streams EXCEPT ![id] = "done"]
            /\ UNCHANGED oversize
       ELSE /\ Word(0) # U32_MAX
            /\ inbox' = mpsc_send(inbox, [id |-> id, kind |-> "Bi", reply |-> "waiting"])
            /\ streams' = [streams EXCEPT ![id] = "app"]
            /\ UNCHANGED oversize
    /\ UNCHANGED <<log, channel, sa, up, down, bs, outcome, replies, closed>>

\* bi_stream on a stream of one message: the reply of the application is
\* written and the stream finished, or the task ends with RecvReturn.
SingleReply(id) ==
    /\ UNCHANGED <<storageVars, treeVars, regionVars, restVars>>
    /\ ~closed
    /\ streams[id] = "app"
    /\ inbox[Delivered(id)].reply \in {"sent", "dropped"}
    /\ streams' = [streams EXCEPT ![id] = IF inbox[Delivered(id)].reply = "sent" THEN "back" ELSE "reset"]
    /\ UNCHANGED <<log, channel, sa, up, down, bs, inbox, outcome, replies, oversize, closed>>

\* RawConnection::send of a Bi message: read_to_end gives the reply, which goes
\* to the ValueSender, or an error.
SingleDone(id) ==
    /\ UNCHANGED <<storageVars, treeVars, regionVars, restVars>>
    /\ ~closed
    /\ streams[id] \in {"back", "reset"}
    /\ streams' = [streams EXCEPT ![id] = "done"]
    /\ outcome' = [outcome EXCEPT ![id] = IF streams[id] = "back" THEN "reply" ELSE "error"]
    /\ replies' = [replies EXCEPT ![id] = IF streams[id] = "back" THEN @ + 1 ELSE @]
    /\ UNCHANGED <<log, channel, sa, up, down, bs, inbox, oversize, closed>>

\* RawConnection::close (or its drop): every stream ends with an error and the
\* waiting requests with it.
Close ==
    /\ UNCHANGED <<storageVars, treeVars, regionVars, restVars>>
    /\ ~closed
    /\ closed' = TRUE
    /\ outcome' = DropChannel(outcome, Ids)
    /\ UNCHANGED <<log, channel, sa, up, down, bs, streams, inbox, replies, oversize>>

\* The steps of the tasks of the connection and of the application.
NetTasks ==
    \/ SendAllWrite
    \/ SendAllRead
    \/ SendAllReset
    \/ BiStreamRead
    \/ \E i \in Ids, answer \in BOOLEAN : AppReply(i, answer)
    \/ BiStreamReply
    \/ \E id \in Ids : SingleRecv(id)
    \/ \E id \in Ids : SingleReply(id)
    \/ \E id \in Ids : SingleDone(id)

NetNext ==
    \/ \E kind \in Kinds, size \in Sizes : ChannelSend(kind, size)
    \/ \E kind \in Kinds, size \in Sizes : SingleSend(kind, size)
    \/ NetTasks
    \/ Close

\* InterpolationBuffer::new(value, at)
BufferStart(value, at) ==
    /\ buffer = InterpolationBufferNew(value, at)
    /\ given = value
    /\ inserts = 0
    /\ writes = 0

BufferInit == BufferStart(0, 0)

\* buffer.insert(x, y)
BufferInsert(x, y) ==
    /\ UNCHANGED <<storageVars, treeVars, regionVars, netVars>>
    /\ UNCHANGED <<syncVars, frameVars, pcVars, guardVars, cmpVars>>
    /\ inserts < MaxInserts
    /\ inserts' = inserts + 1
    /\ buffer' = insert(buffer, x, y)
    /\ writes' = insert_writes(buffer, x)
    /\ given' = y

BufferNext == \E x \in Ticks, y \in Samples : BufferInsert(x, y)

\* Synchronizer::new: the thread is spawned and waits at the barrier.
SyncInit ==
    /\ pend = 0
    /\ caller = "idle"
    /\ thread = "wait"
    /\ calls = 0
    /\ syncs = 0

\* Synchronizer::sync, called by RawDatabase::snapshot, up to its barrier.wait()
SyncCall ==
    /\ UNCHANGED <<storageVars, treeVars, regionVars, netVars>>
    /\ UNCHANGED <<bufferVars, frameVars, pcVars, guardVars, cmpVars>>
    /\ caller = "idle"
    /\ calls < MaxCalls
    /\ calls' = calls + 1
    /\ pend' = pend + 1
    /\ caller' = "sync"
    /\ UNCHANGED <<thread, syncs>>

\* Drop for Synchronizer, up to its barrier.wait()
DropCall ==
    /\ UNCHANGED <<storageVars, treeVars, regionVars, netVars>>
    /\ UNCHANGED <<bufferVars, frameVars, pcVars, guardVars, cmpVars>>
    /\ caller = "idle"
    /\ caller' = "drop"
    /\ UNCHANGED <<pend, thread, calls, syncs>>

\* Barrier::new(2): both threads have reached barrier.wait() and leave it;
\* Synchronizer::sync returns, drop goes on to join.
BarrierPass ==
    /\ UNCHANGED <<storageVars, treeVars, regionVars, netVars>>
    /\ UNCHANGED <<bufferVars, frameVars, pcVars, guardVars, cmpVars>>
    /\ caller \in {"sync", "drop"}
    /\ thread = "wait"
    /\ caller' = IF caller = "sync" THEN "idle" ELSE "join"
    /\ thread' = "woken"
    /\ UNCHANGED <<pend, calls, syncs>>

\* The thread after the barrier: pending.fetch_sub(1), then return or data.sync()
ThreadFetch ==
    /\ UNCHANGED <<storageVars, treeVars, regionVars, netVars>>
    /\ UNCHANGED <<bufferVars, frameVars, pcVars, guardVars, cmpVars>>
    /\ thread = "woken"
    /\ pend' = pend - 1
    /\ IF pend = 0
       THEN thread' = "exit" /\ syncs' = syncs
       ELSE thread' = "sync" /\ syncs' = syncs + 1
    /\ UNCHANGED <<caller, calls>>

\* data.sync() returns and the thread is back at barrier.wait()
SyncReturns ==
    /\ UNCHANGED <<storageVars, treeVars, regionVars, netVars>>
    /\ UNCHANGED <<bufferVars, frameVars, pcVars, guardVars, cmpVars>>
    /\ thread = "sync"
    /\ thread' = "wait"
    /\ UNCHANGED <<pend, caller, calls, syncs>>

\* Drop for Synchronizer: join returns.
Join ==
    /\ UNCHANGED <<storageVars, treeVars, regionVars, netVars>>
    /\ UNCHANGED <<bufferVars, frameVars, pcVars, guardVars, cmpVars>>
    /\ caller = "join"
    /\ thread = "exit"
    /\ caller' = "done"
    /\ UNCHANGED <<pend, thread, calls, syncs>>

SyncNext ==
    \/ SyncCall
    \/ DropCall
    \/ BarrierPass
    \/ ThreadFetch
    \/ SyncReturns
    \/ Join

\* RootContext::new and RootFrame::new: create_timeline_semaphore(0), fences
\* created signaled, nothing submitted.
FrameInit ==
    /\ frame_count = 0
    /\ semaphore = 0
    /\ main_queue_fence = [slot \in 0..(FRAMES_IN_FLIGHT - 1) |-> TRUE]
    /\ phase = [f \in Frames |-> "none"]

\* Root::render when RootFrame::render gets as far as device.submit: the
\* commands of the frame are handed to the queue.
Render ==
    /\ UNCHANGED <<storageVars, treeVars, regionVars, netVars>>
    /\ UNCHANGED <<bufferVars, syncVars, pcVars, guardVars, cmpVars>>
    /\ frame_count < MaxFrames
    /\ main_queue_fence[frame_count % FRAMES_IN_FLIGHT]
    /\ main_queue_fence' = [main_queue_fence EXCEPT ![frame_count % FRAMES_IN_FLIGHT] = FALSE]
    /\ phase' = [phase EXCEPT ![frame_count] = "queued"]
    /\ frame_count' = frame_count + 1
    /\ UNCHANGED semaphore

\* Root::render when RootFrame::render returns an error after the reset of the
\* fence and before device.submit (acquire_next_image is out of date).
RenderFails ==
    /\ UNCHANGED <<storageVars, treeVars, regionVars, netVars>>
    /\ UNCHANGED <<bufferVars, syncVars, pcVars, guardVars, cmpVars>>
    /\ frame_count < MaxFrames
    /\ main_queue_fence[frame_count % FRAMES_IN_FLIGHT]
    /\ main_queue_fence' = [main_queue_fence EXCEPT ![frame_count % FRAMES_IN_FLIGHT] = FALSE]
    /\ phase' = [phase EXCEPT ![frame_count] = "failed"]
    /\ frame_count' = frame_count + 1
    /\ UNCHANGED semaphore

\* The device starts the commands of frame f that come before its compute
\* stage; the wait on the timeline semaphore does not hold them back.
DeviceBegins(f) ==
    /\ UNCHANGED <<storageVars, treeVars, regionVars, netVars>>
    /\ UNCHANGED <<bufferVars, syncVars, pcVars, guardVars, cmpVars>>
    /\ phase[f] = "queued"
    /\ phase' = [phase EXCEPT ![f] = "early"]
    /\ UNCHANGED <<frame_count, semaphore, main_queue_fence>>

\* The device starts the cull dispatch of frame f: the wait with
\* wait_dst_stage_mask COMPUTE_SHADER is over.
DeviceCulls(f) ==
    /\ UNCHANGED <<storageVars, treeVars, regionVars, netVars>>
    /\ UNCHANGED <<bufferVars, syncVars, pcVars, guardVars, cmpVars>>
    /\ phase[f] = "early"
    /\ semaphore >= wait_semaphore_value(f)
    /\ phase' = [phase EXCEPT ![f] = "cull"]
    /\ UNCHANGED <<frame_count, semaphore, main_queue_fence>>

\* The device goes on from the cull dispatch to the render pass of frame f.
DeviceRenders(f) ==
    /\ UNCHANGED <<storageVars, treeVars, regionVars, netVars>>
    /\ UNCHANGED <<bufferVars, syncVars, pcVars, guardVars, cmpVars>>
    /\ phase[f] = "cull"
    /\ phase' = [phase EXCEPT ![f] = "render"]
    /\ UNCHANGED <<frame_count, semaphore, main_queue_fence>>

\* The device completes the submission of frame f: it signals the timeline
\* semaphore and the fence of the frame's slot.
DeviceCompletes(f) ==
    /\ UNCHANGED <<storageVars, treeVars, regionVars, netVars>>
    /\ UNCHANGED <<bufferVars, syncVars, pcVars, guardVars, cmpVars>>
    /\ phase[f] = "render"
    /\ phase' = [phase EXCEPT ![f] = "done"]
    /\ semaphore' = signal_semaphore_value(f)
    /\ main_queue_fence' = [main_queue_fence EXCEPT ![f % FRAMES_IN_FLIGHT] = TRUE]
    /\ UNCHANGED frame_count

FrameNext ==
    \/ Render
    \/ RenderFails
    \/ \E f \in Frames : DeviceBegins(f)
    \/ \E f \in Frames : DeviceCulls(f)
    \/ \E f \in Frames : DeviceRenders(f)
    \/ \E f \in Frames : DeviceCompletes(f)

\* World::new of the persistent world with initialize_player for each player.
PcInit ==
    /\ pcvec = PCVecNew
    /\ player_slots = [player \in PlayerIds |-> [slot \in 0..(SLOT_COUNT - 1) |-> NoId]]
    /\ handed = {}
    /\ panicked = FALSE

\* Request::Create with a valid slot: World::spawn_pc
SpawnPc(player, slot) ==
    /\ UNCHANGED <<storageVars, treeVars, regionVars, netVars>>
    /\ UNCHANGED <<bufferVars, syncVars, frameVars, guardVars, cmpVars>>
    /\ ~panicked
    /\ IF player_slots[player][slot] # NoId
       THEN UNCHANGED pcVars
       ELSE \E r \in {add(pcvec, [player |-> player, slot |-> slot])} :
                /\ pcvec' = r.vec
                /\ player_slots' = [player_slots EXCEPT ![player][slot] = r.index]
                /\ handed' = handed \cup {r.index}
                /\ UNCHANGED panicked

\* Request::Delete with a valid slot: World::delete_pc
DeletePc(player, slot) ==
    /\ UNCHANGED <<storageVars, treeVars, regionVars, netVars>>
    /\ UNCHANGED <<bufferVars, syncVars, frameVars, guardVars, cmpVars>>
    /\ ~panicked
    /\ player_slots' = [player_slots EXCEPT ![player][slot] = NoId]
    /\ IF player_slots[player][slot] = NoId
       THEN UNCHANGED <<pcvec, handed, panicked>>
       ELSE IF free_panics(pcvec, player_slots[player][slot])
       THEN panicked' = TRUE /\ UNCHANGED <<pcvec, handed>>
       ELSE /\ pcvec' = free(pcvec, player_slots[player][slot])
            /\ handed' = handed \ {player_slots[player][slot]}
            /\ UNCHANGED panicked

PcNext ==
    \/ \E player \in PlayerIds, slot \in 0..(SLOT_COUNT - 1) : SpawnPc(player, slot)
    \/ \E player \in PlayerIds, slot \in 0..(SLOT_COUNT - 1) : DeletePc(player, slot)

\* Nothing was compared.
NoOrdering == [done |-> FALSE, ab |-> 0, ba |-> 0, bc |-> 0, ac |-> 0]

\* The entries compared: every change at two distances and three positions.
Changes == {"SetupStatic", "SetupDynamic", "SetupPlayer", "TeardownDynamic", "TeardownStatic"}

CmpPoss == {[x |-> 0, z |-> 0], [x |-> 1, z |-> 0], [x |-> 0, z |-> 1]}

Entries == [pos : CmpPoss, dist : 0..1, uuid : Uuids, change : Changes, pc : {NoPosition}]

CmpStart(a, b, c) ==
    /\ entries = <<a, b, c>>
    /\ ordering = NoOrdering

CmpInit ==
    \E a \in {[pos |-> [x |-> 0, z |-> 0], dist |-> 0, uuid |-> 1, change |-> "SetupStatic",
                 pc |-> NoPosition]} : CmpStart(a, a, a)

\* Entry::cmp on each pair of the three entries.
Compare ==
    /\ UNCHANGED <<storageVars, treeVars, regionVars, netVars>>
    /\ UNCHANGED <<bufferVars, syncVars, frameVars, pcVars, guardVars>>
    /\ ~ordering.done
    /\ ordering' = [done |-> TRUE,
                    ab |-> EntryCmp(entries[1], entries[2]),
                    ba |-> EntryCmp(entries[2], entries[1]),
                    bc |-> EntryCmp(entries[2], entries[3]),
                    ac |-> EntryCmp(entries[1], entries[3])]
    /\ UNCHANGED entries

CmpNext == Compare

RestInit == BufferInit /\ SyncInit /\ FrameInit /\ PcInit /\ GuardInit /\ CmpInit

vars == <<storageVars, treeVars, regionVars, netVars, restVars>>

Init == StorageInit /\ TreeInit /\ RegionInit /\ NetInit /\ RestInit

\* A buffer made at any tick with any sample, and inserts at any ticks.
AnyBufferInit ==
    /\ StorageInit
    /\ TreeInit
    /\ RegionInit
    /\ NetInit
    /\ SyncInit
    /\ FrameInit
    /\ PcInit
    /\ GuardInit
    /\ CmpInit
    /\ \E value \in Samples, at \in Ticks : BufferStart(value, at)

BufferSpec == AnyBufferInit /\ [][BufferNext]_vars

\* The client's render loop and the device's queue.
FrameSpec == Init /\ [][FrameNext]_vars

\* The device goes on with every submission it can go on with.
DeviceWorks ==
    \A f \in Frames : /\ WF_vars(DeviceBegins(f))
                      /\ WF_vars(DeviceCulls(f))
                      /\ WF_vars(DeviceRenders(f))
                      /\ WF_vars(DeviceCompletes(f))

FrameFair == FrameSpec /\ DeviceWorks

\* Entry::cmp on any three entries.
AnyEntriesInit ==
    /\ StorageInit
    /\ TreeInit
    /\ RegionInit
    /\ NetInit
    /\ BufferInit
    /\ SyncInit
    /\ FrameInit
    /\ PcInit
    /\ GuardInit
    /\ \E a \in Entries, b \in Entries, c \in Entries : CmpStart(a, b, c)

CmpSpec == AnyEntriesInit /\ [][CmpNext]_vars

\* Operations on one VecGuard after the other, between snapshots.
GuardSpec == Init /\ [][GuardNext]_vars

\* Characters created and deleted in the persistent world.
PcSpec == Init /\ [][PcNext]_vars

\* The synchronizer of one database from its creation to its drop.
SyncSpec == Init /\ [][SyncNext]_vars

Next == StorageNext

TreeSpec == Init /\ [][TreeNext]_vars

\* The server on a world in which the users may have played before: every PC
\* is where it was created or at a position an earlier run saved.
PlayedInit ==
    /\ StorageInit
    /\ TreeInit
    /\ NetInit
    /\ RestInit
    /\ SmallWorld
    /\ \E sv \in [Uuids -> Positions \cup {Spawn}] : RegionStart(sv, [u \in Uuids |-> FALSE])

RegionSpec == PlayedInit /\ [][RegionNext]_vars

\* The server on the large world; every PC is where it was created or at a
\* position an earlier run saved.
AtlasInit ==
    /\ StorageInit
    /\ TreeInit
    /\ NetInit
    /\ RestInit
    /\ LargeWorld
    /\ \E sv \in [Uuids -> AtlasPositions \cup {Spawn}] : RegionStart(sv, [u \in Uuids |-> FALSE])

AtlasSpec == AtlasInit /\ [][AtlasNext]_vars

\* The same server when no client reads its notifications.
SlowInit ==
    /\ StorageInit
    /\ TreeInit
    /\ NetInit
    /\ RestInit
    /\ SmallWorld
    /\ \E sv \in [Uuids -> Positions \cup {Spawn}] : RegionStart(sv, [u \in Uuids |-> TRUE])

SlowSpec == SlowInit /\ [][RegionNext]_vars

\* The server with requests of every kind from its users, each with PCs made
\* by an earlier run.
RequestSpec == Init /\ [][RequestNext]_vars

\* The same server until it is shut down.
ServiceSpec == Init /\ [][ServiceNext]_vars

Spec == Init /\ [][Next]_vars

NetSpec == Init /\ [][NetNext]_vars

\* The tasks of the connection and the application are scheduled again and
\* again; nothing makes the endpoints send or close.
NetFair == NetSpec /\ WF_vars(NetTasks)

\* The storage operations, up to MaxCrashVersion snapshots in a file of up to
\* MaxCrashPage pages, until a power loss; the run ends with the file opened
\* after the power loss.
CrashNext ==
    \/ /\ last # "crash"
       /\ StorageNext
       /\ version' <= MaxCrashVersion
       /\ state'.last_page <= MaxCrashPage
    \/ \E written \in SUBSET Dirty, h \in CrashHeaders : Crash(written, h)

CrashSpec == Init /\ [][CrashNext]_vars

\* The storage operations, within the same bounds, until the file is damaged
\* or cut while the database is closed; the run ends with the file opened.
OpenNext ==
    \/ /\ last \notin {"damaged", "truncated"}
       /\ StorageNext
       /\ version' <= MaxCrashVersion
       /\ state'.last_page <= MaxCrashPage
    \/ /\ last \notin {"damaged", "truncated"}
       /\ \E a \in DamagedSlots(1), b \in DamagedSlots(2) : OpenDamaged(<<a, b>>)
    \/ /\ last \notin {"damaged", "truncated"}
       /\ \E t \in 1..MaxCrashPage : Truncate(t)

OpenSpec == Init /\ [][OpenNext]_vars

\* ------------------------------------------------------------ storage claims

\* C1: after a power loss that follows at least one finished sync, the opened
\* file shows a committed snapshot: the open succeeds and the vector read back
\* is the one of the last snapshot whose sync finished (or of the snapshot
\* whose sync was under way), never anything else.
CrashShowsLastSnapshot ==
    last = "crash" /\ durable.version > 0
        => status = "open" /\ ReadVec(pages, vec) \in {durable.content, snap.content}

\* C2: a reopen that directly follows a snapshot succeeds and reads back the
\* vector (its length and every element) as it was at that snapshot.
SnapshotReopenRoundTrip ==
    [][(last = "snapshot" /\ last' = "reopen")
          => (status' = "open" /\ ReadVec(pages', vec') = snap.content)]_vars

\* C3: every page the last snapshot refers to (file and vector pages and the
\* pages of both free lists) holds the bytes it held at that snapshot.
NoInPlaceWrite == \A p \in snap.pages : pages[p] = snap.image[p]

\* C4: no operation hands out, by allocate or reallocate, a page of the last
\* snapshot that was released since that snapshot.
ReleasedNotReused == ~reused

\* The pages of the vector, of the root file and of the two free lists' index
\* trees, and the page numbers the free lists hold.
VecInUse == ExtentPages(pages, vec.root, from_pages(vec_pages(vec.len)))

FileInUse == ExtentPages(pages, file.root, from_pages(file_pages(file.len)))

ListInUse ==
    FreeListPages(pages, state.current_free.root, 0)
    \cup FreeListPages(pages, state.previous_free.root, 0)

Free == FreeListEntries(pages, state.current_free) \cup FreeListEntries(pages, state.previous_free)

\* C26: no page is in use twice (by the vector, the root file and the index
\* trees of the free lists), and no page in use is held by a free list.
InUseOnce ==
    status = "open" =>
        /\ VecInUse \cap FileInUse = {}
        /\ (VecInUse \cup FileInUse) \cap ListInUse = {}
        /\ (VecInUse \cup FileInUse \cup ListInUse) \cap Free = {}

\* C32: between the operations, back - front of each free list is the number
\* of its live free entries: the slots of its window that hold a page number
\* (not 0, not a second time in the window) of a page that is not in use.
EntryAt(fl, i) == get_in_page([pages |-> pages], fl.root, i, 0)

LiveFreeEntries(fl) ==
    {i \in fl.front..(fl.back - 1) :
        /\ EntryAt(fl, i) \notin {None, NULL_PAGE_NR}
        /\ EntryAt(fl, i) \notin VecInUse \cup FileInUse \cup ListInUse
        /\ \A j \in fl.front..(i - 1) : EntryAt(fl, j) # EntryAt(fl, i)}

WindowCountsLiveEntries ==
    status = "open" =>
        /\ state.current_free.back - state.current_free.front
               = Cardinality(LiveFreeEntries(state.current_free))
        /\ state.previous_free.back - state.previous_free.front
               = Cardinality(LiveFreeEntries(state.previous_free))

\* The allocator state the last snapshot wrote to the header, and the slot i
\* of a free list in the pages as they were at that snapshot.
Committed == header[(version % 2) + 1].state.allocator

CommittedEntryAt(fl, i) ==
    get_in_page([pages |-> [p \in PageNrs |-> IF p \in snap.pages THEN snap.image[p] ELSE ZeroPage]],
                fl.root, i, 0)

\* C33: in a transaction the previous free list is only read: its root, front
\* and back and the entries it stores are what they were just after the last
\* snapshot.
PreviousOnlyRead ==
    (status = "open" /\ version > 0) =>
        /\ state.previous_free = Committed.previous_free
        /\ \A i \in 0..(Committed.previous_free.back - 1) :
               EntryAt(state.previous_free, i) = CommittedEntryAt(Committed.previous_free, i)

\* C33 as the code has it: root and front of the previous free list and the
\* entries it stores are what they were just after the last snapshot, and its
\* back is at most what it was: allocate takes pages from its back.
PreviousOnlyPopped ==
    (status = "open" /\ version > 0) =>
        /\ state.previous_free.root = Committed.previous_free.root
        /\ state.previous_free.front = Committed.previous_free.front
        /\ state.previous_free.back <= Committed.previous_free.back
        /\ \A i \in 0..(Committed.previous_free.back - 1) :
               EntryAt(state.previous_free, i) = CommittedEntryAt(Committed.previous_free, i)

\* A transaction has taken a page from the back of the previous list.
PoppedFromPrevious ==
    /\ status = "open"
    /\ version > 0
    /\ last = "write"
    /\ state.previous_free.back < Committed.previous_free.back

\* What Database::snapshot has made of the database when it calls
\* AllocatorState::swap: the root file is written and resized.
BeforeSwap ==
    CHOOSE r \in UNION {{IF Stop(w) THEN w ELSE set_len(w, w.ret, 12)} :
                            w \in {serialize(Machine, file, vec)}} : TRUE

\* C31: a snapshot that succeeds leaves as previous list the list that was
\* current, with the entries it held, and as current list an empty list with
\* front = 0.
SnapshotSwapsLists ==
    [][(last' = "snapshot" /\ version' = version + 1) =>
          /\ state'.previous_free = BeforeSwap.state.current_free
          /\ FreeListEntries(pages', state'.previous_free)
                 = FreeListEntries(BeforeSwap.pages, BeforeSwap.state.current_free)
          /\ state'.current_free.front = 0
          /\ state'.current_free.back = state'.current_free.front]_vars

\* C31 as the code has it: a snapshot that succeeds leaves as previous list the
\* list that was current, with the entries it held, and as current list the
\* list that was previous with front = 0 and its root and back kept, so that
\* its window is [0, back).
SnapshotSwapsListsKeepingBack ==
    [][(last' = "snapshot" /\ version' = version + 1) =>
          /\ state'.previous_free = BeforeSwap.state.current_free
          /\ FreeListEntries(pages', state'.previous_free)
                 = FreeListEntries(BeforeSwap.pages, BeforeSwap.state.current_free)
          /\ state'.current_free = [BeforeSwap.state.previous_free EXCEPT !.front = 0]]_vars

\* A snapshot has just made current a list that holds entries.
SwappedListHoldsEntries ==
    /\ last = "snapshot"
    /\ status = "open"
    /\ version > 0
    /\ state.current_free.front = 0
    /\ state.current_free.back > 0

\* ------------------------------------------------------------ tree claims
\* What get(k) returns for every key.
TreeContent == [k \in Keys |-> tree_get(pages, tree, k)]

\* C5: every insert and remove completes, and afterwards get(k) is the value
\* of the last insert of k that no remove of k followed, and None for every
\* other key.
TreeEqualsOracle ==
    last \in {"insert", "remove"} => status = "open" /\ TreeContent = oracle

\* The keys of the node nr are in order and lie in lo..(hi - 1), and so do
\* those of the nodes below it, down to fuel levels.
RECURSIVE NodeOrdered(_, _, _, _, _)
NodeOrdered(img, nr, lo, hi, fuel) ==
    /\ fuel > 0
    /\ nr # NULL_PAGE_NR
    /\ InRange(nr)
    /\ IF is_leaf(img[nr])
       THEN LET ks == leaf_keys(img[nr])
            IN  /\ \A i \in 1..(Len(ks) - 1) : ks[i] < ks[i + 1]
                /\ \A i \in 1..Len(ks) : lo <= ks[i] /\ ks[i] < hi
       ELSE LET ks == branch_keys(img[nr])
                cs == branch_children(img[nr])
            IN  /\ Len(cs) > 0
                /\ \A i \in 1..(Len(ks) - 1) : ks[i] <= ks[i + 1]
                /\ \A i \in 1..Len(cs) :
                       NodeOrdered(img, cs[i],
                                   IF i = 1 THEN lo ELSE ks[i - 1],
                                   IF i = Len(cs) THEN hi ELSE ks[i],
                                   fuel - 1)

StaticWellFormed == ~badStatic

\* C9: no user is sent DynamicUpdates or a DynamicTeardown of a region without
\* a DynamicSetup of that region in force.
DynamicWellFormed == ~badDynamic

\* The user u entered once, kept its center, and no change of u is queued.
Settled(u) ==
    /\ quiet[u] = "still"
    /\ ~crashed /\ ~suspended /\ ~stopped
    /\ \A i \in DOMAIN queue : queue[i].uuid # u

\* C10: a user that entered at center C and kept it has, once its changes are
\* applied, been sent one StaticSetup for each region within StaticDistance of
\* C, one DynamicSetup for each region within FullDistance of C, and no other.
SetupsOfSettled ==
    \A u \in Uuids : Settled(u) =>
        \A p \in RegionPoss :
            /\ recv[u][p].ns = IF distance(p, observers[u].center) <= configuration.static_distance THEN 1 ELSE 0
            /\ recv[u][p].nd = IF distance(p, observers[u].center) <= configuration.full_distance THEN 1 ELSE 0

\* A settled user at a center that leaves some regions out of range.
SettledWithSetups ==
    \E u \in Uuids :
        /\ Settled(u)
        /\ recv[u][observers[u].center].nd = 1
        /\ \E p \in RegionPoss : recv[u][p].ns = 1 /\ recv[u][p].nd = 0
        /\ \E p \in RegionPoss : recv[u][p].ns = 0

\* C11: whatever the clients do (Enter, UpdateSelf, Exit, Disconnected) and
\* whenever the ticks come, no handler of the actor panics: the actor is
\* there to process the next action.
ActorNeverAborts == ~crashed

\* C12: a tick runs to its end whether or not the clients read: no send of the
\* tick waits for room in a channel, and every setup notification the tick
\* makes is put into the channel of its observer.
TickNeverSuspends == ~suspended /\ ~lost

\* C13: process applies the queued changes by tier: whenever it applies a
\* change, no change of a higher tier (SetupStatic, SetupDynamic, SetupPlayer,
\* TeardownDynamic, TeardownStatic, from high to low) is left in the queue.
AppliedByTier == ~outOfTier

\* C21: every observer that entered and whose pending flag a tick has cleared
\* was sent the GlobalSetup notification by that tick.
PendingSetupIsSent ==
    \A u \in Uuids : (observers[u].some /\ ~pending[u]) => ~lost

\* C34: the change process applies next (the top of the queue) is, among the
\* queued changes of its kind, one of the least distance: within each group the
\* changes are applied in ascending order of distance.
SameGroup == {i \in DOMAIN queue : queue[i].change = queue[1].change}

NearestFirstInGroup ==
    (~crashed /\ queue # <<>>) => \A i \in SameGroup : queue[1].dist <= queue[i].dist

\* C27: while the actor runs, the full-observer count of every region is the
\* number of observers registered in it at level Full, and the NPCs of the
\* region are in the transient state exactly when the count is above zero.
FullObservers(p) == {u \in Uuids : regions[p].observers[u] = "full"}

FullObserversCounted ==
    ~crashed =>
        \A p \in RegionPoss :
            /\ regions[p].full_observers = Cardinality(FullObservers(p))
            /\ regions[p].npcs <=> regions[p].full_observers > 0

\* C28: whenever the change queue is empty (and the actor runs), every user is
\* registered in exactly the regions within StaticDistance of its center, at
\* level Full within FullDistance and at level Static beyond, and a user
\* without an observer is registered in no region.
Drained == queue = <<>> /\ ~crashed /\ ~suspended

RegisteredAroundCenter ==
    Drained =>
        \A u \in Uuids : \A p \in RegionPoss :
            regions[p].observers[u] =
                LevelAt(p, IF observers[u].some THEN observers[u].center ELSE NoPosition)

\* C29: in every state in which a tick can come, each PC the tick will update
\* (its target differs from its last position) has a region entry for the
\* region of its last position and for the region of its target.
\* Notification::Enter: WorldEnter::max_active_regions
max_active_regions ==
    (configuration.static_distance + 1) * (configuration.static_distance + 1) * 4

\* The regions the client of user u holds: those it was sent a StaticSetup
\* and no StaticTeardown for.
Held(u) == {p \in RegionPoss : recv[u][p].static}

\* C38: no client holds more than max_active_regions regions at a time.
HeldWithinMax == \A u \in Uuids : Cardinality(Held(u)) <= max_active_regions

MovingPCs == {u \in Uuids : pcs[u].some /\ pcs[u].target # pcs[u].pos}

UpdatedPCsHaveRegions ==
    (~crashed /\ ~suspended /\ ~stopped) =>
        \A u \in MovingPCs :
            /\ regions[region(pcs[u].pos)].live
            /\ regions[region(pcs[u].target)].live

\* ------------------------------------------------------------ network claims

\* C14: every Bi request that was sent, on a stream of its own or through the
\* channel of the batched mode, gets a reply or an error in the end, and its
\* ValueSender is never given more than one reply.
BiResolves ==
    /\ [](\A id \in Ids : replies[id] <= 1)
    /\ \A id \in Ids : (outcome[id] = "pending") ~> (outcome[id] \in {"reply", "error"})

\* C15: in the batched mode the receiver takes every frame for the kind the
\* sender wrote it as, and a reply comes back for a Bi frame and for no other:
\* a reply that send_all reads is the reply to the request it is waiting for.
BatchKindsRoundTrip ==
    /\ \A i \in DOMAIN inbox : log[inbox[i].id].mode = "batch" => inbox[i].kind = log[inbox[i].id].kind
    /\ \A i \in DOMAIN down : log[down[i].re].kind = "Bi"

\* C16: when a receiving task has met a message above the size limit, the
\* connection is closed, and no message above the limit is ever handed to the
\* application.
OversizeCloses ==
    /\ oversize => closed
    /\ \A i \in DOMAIN inbox : log[inbox[i].id].size <= SizeLimit

\* C17: the messages that were queued into the channel of one sender reach the
\* application of the peer in the order in which they were queued.
QueuedInOrder ==
    \A i, j \in DOMAIN inbox :
        i < j /\ log[inbox[i].id].mode = "batch" /\ log[inbox[j].id].mode = "batch"
            => inbox[i].id < inbox[j].id

TwoQueuedReceived ==
    \E i, j \in DOMAIN inbox :
        i < j /\ log[inbox[i].id].mode = "batch" /\ log[inbox[j].id].mode = "batch"

\* ------------------------------------------------------------ header claims
\* Slot i of the header page h as the format defines a valid slot.
SlotValid(h, i) ==
    /\ h[i + 1].state.version % 2 = i
    /\ h[i + 1].checksum = checksum(h[i + 1].state)

\* The valid slots of the header page, and the one of the greatest version.
ValidSlots == {i \in 0..1 : SlotValid(header, i)}

BestSlot ==
    CHOOSE i \in ValidSlots :
        \A j \in ValidSlots : header[j + 1].state.version <= header[i + 1].state.version

\* C18: an open of a file whose header page was damaged fails when no slot is
\* valid (version mod 2 equal to the slot index and checksum matching the
\* content); otherwise the database it opens has the version, the allocator
\* state and the root file of the valid slot of the greatest version, and it
\* fails only when the content cannot be read from that root file.
HeaderSlotChoice ==
    last = "damaged" =>
        IF ValidSlots = {} THEN status = "failed"
        ELSE \E st \in {header[BestSlot + 1].state} :
                /\ last_snapshot(header) = [some |-> TRUE, state |-> st]
                /\ status \in {"open", "failed"}
                /\ status = "open" =>
                       /\ version = st.version
                       /\ state = st.allocator
                       /\ file = [root |-> st.root_nr, len |-> st.root_len]
                /\ status = "failed" =>
                       ~deserialize(pages, [root |-> st.root_nr, len |-> st.root_len]).some

\* The open chose the older slot because the newer one was damaged.
OlderSlotChosen ==
    /\ last = "damaged"
    /\ status = "open"
    /\ \E i \in 0..1 : /\ ~SlotValid(header, i)
                        /\ header[i + 1].state.version > version
                        /\ version > 0

\* C19: an open of a file that was cut at a page boundary behind the header
\* page fails or reads back the vector of the last snapshot.
TruncatedOpenIsLastSnapshot ==
    last = "truncated" /\ version > 0
        => status = "failed" \/ (status = "open" /\ ReadVec(pages, vec) = snap.content)

\* ----------------------------------------------------------- request claims
RequestKinds == {"Create", "Delete", "Enter", "Exit", "UpdateSelf"}

\* The close codes of the preconditions that a request of the kind from user u,
\* for the slot where it names one, violates in the current state.
Violations(u, kind, slot) ==
    (IF kind \in {"Create", "Delete", "Enter"} /\ slot >= SLOT_COUNT THEN {1001} ELSE {})
    \cup (IF kind = "Create" /\ slot < SLOT_COUNT /\ slots[u][slot] THEN {1002} ELSE {})
    \cup (IF kind = "Enter" /\ slot < SLOT_COUNT /\ ~slots[u][slot] THEN {1003} ELSE {})
    \cup (IF kind \in {"Exit", "UpdateSelf"} /\ ~InGame(u) THEN {1004} ELSE {})
    \cup (IF kind = "Enter" /\ InGame(u) THEN {1005} ELSE {})

\* The step is the handling of a request of the kind from user u.
Handled(u, kind, slot) ==
    \/ kind = "Create" /\ RequestCreate(u, slot)
    \/ kind = "Delete" /\ RequestDelete(u, slot)
    \/ kind = "Enter" /\ RequestEnter(u, slot)
    \/ kind = "Exit" /\ RequestExit(u)
    \/ kind = "UpdateSelf" /\ \E pos \in Positions : RequestUpdateSelf(u, pos)

\* C20: the handling of a request that violates a precondition closes the
\* connection of the requesting user with the code of a violated precondition
\* (1001 slot outside the range, 1002 Create on a bound slot, 1003 Enter on an
\* unbound slot, 1004 Exit or UpdateSelf while not in game, 1005 Enter while
\* in game), closes no other connection and leaves the world as it was.
RejectsWithMatchingCode ==
    [][\A u \in Users, kind \in RequestKinds, slot \in SlotInputs :
           (Violations(u, kind, slot) # {} /\ Handled(u, kind, slot)) =>
               /\ closeCode'[u] \in Violations(u, kind, slot)
               /\ \A o \in Users \ {u} : closeCode'[o] = closeCode[o]
               /\ UNCHANGED <<observers, regions, queue, pcs, saved, slots, pending>>]_vars

\* A user in game was rejected for entering again while another user's
\* connection is open.
RejectedInGame ==
    \E u \in Users :
        /\ closeCode[u] = 1005
        /\ InGame(u)
        /\ \E o \in Users \ {u} : closeCode[o] = 0

SnapshotNeverWaitsForSync == ~(caller = "sync" /\ thread = "sync")

\* ------------------------------------------------------------ frame claims
\* C25: the device has started the cull dispatch of a frame only when the
\* render of the frame before it has completed.
FramesSerialized ==
    \A f \in Frames :
        (f > 0 /\ phase[f] \in {"cull", "render", "done"}) => phase[f - 1] = "done"

\* Two frames were in the queue at once and the second has started its cull
\* dispatch.
SecondCullAfterOverlap ==
    \E f \in Frames :
        /\ f > 0
        /\ phase[f] = "cull"
        /\ frame_count > f + 1

\* C39: the timeline value a submitted frame waits for is eventually
\* signalled, and a fence that a frame has reset is eventually signalled.
FramesNeverWait ==
    /\ \A f \in Frames :
           (phase[f] \in {"queued", "early"}) ~> (semaphore >= wait_semaphore_value(f))
    /\ \A slot \in 0..(FRAMES_IN_FLIGHT - 1) :
           (~main_queue_fence[slot]) ~> main_queue_fence[slot]

\* ------------------------------------------------------------ buffer claims
\* C24: after any sequence of inserts, at ticks in any order, get(last)
\* returns the value given to the most recent insert.
GetLastIsLastInserted ==
    inserts > 0 => get(buffer, buffer.last) = given

\* C35: an insert makes at most N writes into the ring, whatever the gap
\* between last and its tick.
InsertWritesAtMostN == writes <= N

\* ------------------------------------------------------------ page lookup claims
\* The page an uncached walk from the root of the vector finds for a page index.
Walk(index) == find_page(Machine, vec.root, index, from_pages(vec_pages(vec.len)))

\* C36: the entry the lookup of the guard holds for a page index of the vector
\* is the page number a walk from the root finds for that index.
CachedIsWalk ==
    (status = "open" /\ lookup.kind # "Invalid" /\ lookup.key < vec_pages(vec.len)) =>
        lookup.nr = Walk(lookup.key)

\* ------------------------------------------------------------ ordering claims
\* C40: Entry::cmp is a total order: cmp(b, a) is the reverse of cmp(a, b),
\* cmp(a, b) is Equal only for equal entries, and a below b below c puts a
\* below c.
CmpIsTotalOrder ==
    ordering.done =>
        /\ ordering.ba = 0 - ordering.ab
        /\ ordering.ab = 0 => entries[1] = entries[2]
        /\ (ordering.ab < 0 /\ ordering.bc < 0) => ordering.ac < 0

\* ------------------------------------------------------------ struct-of-vectors claims
\* C30: while no assertion has failed, used[i] of the PCs is 1 exactly for the
\* indices that add returned and that were not freed since, so that free of
\* such an index does not fail.
UsedIsHanded ==
    ~panicked =>
        \A i \in 0..(Len(pcvec.used) - 1) :
            /\ pcvec.used[i + 1] = 1 <=> i \in handed
            /\ i \in handed => ~free_panics(pcvec, i)

====
